---- MODULE Spec2Model ----
(***************************************************************************)
(* Capture pipeline of the Raspberry Pi WebRTC camera server               *)
(* (src/server/camera.py, src/server/webrtc_handler.py).                   *)
(*                                                                         *)
(* Several views of the same program share this module:                    *)
(*   SpecFramer   the reader loop's MJPEG framer, fed from the capture     *)
(*                subprocess's stdout in arbitrary chunks;                 *)
(*   SpecCamera   Camera.start_camera / stop_camera on the event-loop      *)
(*                thread interleaved with the reader thread(s);            *)
(*   SpecHandler  WebRTCHandler.offer and its connection-state handler on  *)
(*                the asyncio event loop.                                  *)
(*   SpecRestart  the reader's restart of a dead subprocess, under fair    *)
(*                scheduling;                                              *)
(*   SpecQueue    the frame queue between the reader's push and recv's     *)
(*                get, call by call;                                       *)
(*   SpecTrack    CameraVideoTrack: the images recv returns and rotate();  *)
(*   SpecYuv      the raw YUV track of src/webrtc_server.py, which cuts    *)
(*                its subprocess's output into frames of a fixed size;     *)
(*   SpecReader   the reader thread with its blocking read, scheduled      *)
(*                fairly, beside start_camera and stop_camera;             *)
(*   SpecStop     the first session of a Camera, with only the thread that *)
(*                calls stop_camera scheduled fairly;                      *)
(*   SpecTerm     the terminate / wait / kill calls that stop a capture    *)
(*                subprocess, call by call;                                *)
(*   SpecBackoff  the reader's restarts in time;                           *)
(*   SpecNal      read_h264_nal_unit of src/multicore-gpu.py;              *)
(*   SpecH264     the streaming H.264 framer of src/h264codec.py;          *)
(*   SpecParams   the capture settings an offer leaves in the config;      *)
(*   SpecLimit    the offer handler of src/enhanced_server.py with its     *)
(*                limit on connections;                                    *)
(*   SpecMjpeg    read_mjpeg_frame of                                      *)
(*                src/deprecated/ultra-low-latency.py.                     *)
(***************************************************************************)
EXTENDS Integers, Sequences, FiniteSets, TLC

(***************************************************************************)
(* Bounds of the model.                                                    *)
(***************************************************************************)
MaxUnits == 2        \* units the capture subprocess writes in one run
MaxExtra == 2        \* payload and garbage bytes in one run, all together
MaxProcs == 4        \* capture subprocesses spawned in one run
MaxThreads == 2      \* reader threads started in one run
MaxOffers == 2       \* offers that reach the handler in one run
MaxFrames == 3       \* frames the reader threads decode in one run
MaxQueue == 2        \* the largest queue_size a run is made with
MaxRotations == 4    \* rotate() calls on one track
MaxBytes == 12       \* bytes rpicam-vid writes to a raw YUV track in one run
MaxChunk == 4        \* the most bytes one read of a subprocess's stdout returns
MaxStalls == 1       \* capture subprocesses that stall in one run
MaxElapsed == 200    \* the most milliseconds a reader's clock counts
MaxNals == 3         \* units an H.264 encoder writes in one run
MaxPayload == 2      \* the most payload bytes of one such unit
MaxLimitOffers == 4  \* offers that reach the connection-limited server

(***************************************************************************)
(* The sleeps of the reader's restart path, in milliseconds.               *)
(***************************************************************************)
RestartBackoffMs == 50    \* time.sleep(0.05), camera.py line 28
StartupCheckMs == 100     \* time.sleep(0.1), camera.py line 121
ErrorSleepMs == 1         \* time.sleep(0.001), camera.py line 74

\* The connections the connection-limited server admits: the default of
\* its configuration (enhanced_server.py, line 62).
max_connections == 3

\* The pending bytes above which the H.264 reader trims its buffer
\* (h264codec.py, line 87).
TrimAbove == 100000

(***************************************************************************)
(* Bytes.  bytes.find compares bytes for equality with the two markers     *)
(* only, so every byte value other than FF, D8 and D9 behaves alike; Other *)
(* stands for all of them.                                                 *)
(***************************************************************************)
FF == 255
D8 == 216
D9 == 217
Other == 0
Bytes == {FF, D8, D9, Other}
SOI == <<FF, D8>>
EOI == <<FF, D9>>

VARIABLES
    \* ---- framer view -------------------------------------------------
    pipe,        \* bytes written to the subprocess's stdout, not yet read
    buffer,      \* camera_reader's local `buffer`
    written,     \* units the subprocess has written, in order
    junk,        \* bytes the subprocess wrote before its first unit
    emitted,     \* jpeg_data values extracted by the reader, in order
    skipped,     \* bytes the framer dropped in front of extracted units
    \* ---- Camera -------------------------------------------------------
    camera_running,  \* Camera.camera_running
    camera_process,  \* Camera.camera_process: a process id, or None
    camera_thread,   \* Camera.camera_thread: a thread id, or None
    frame_queue,     \* Camera.frame_queue: frames, each named by its producer
    proc,            \* every subprocess spawned: "unborn", "alive" or "dead"
    pc,              \* where each thread is: 0 the event-loop thread, 1.. readers
    capture_cmd,     \* rpicam_cmd of the latest Popen: the capture settings
    \* ---- WebRTCHandler ------------------------------------------------
    video_track,     \* WebRTCHandler.video_track is not None
    peer_connections,\* WebRTCHandler.peer_connections
    config,          \* the config dict the handler and the Camera share
    conn,            \* every RTCPeerConnection: where its offer or link stands
    hPending,        \* on_connectionstatechange tasks scheduled, per connection
    hClosing,        \* ... and those suspended at `await pc.close()`
    startCalls,      \* calls of start_camera so far
    stopCalls,       \* calls of stop_camera so far
    sessionCfg,      \* the capture settings at the latest start_camera
    startOutcome,    \* how the latest start_camera ended
    \* ---- the frame queue, seen from both of its ends --------------------
    maxsize,         \* frame_queue.maxsize
    held,            \* the decoded frame each reader thread is about to put
    produced,        \* frames decoded so far; a frame is its number
    lost,            \* frames whose put was given up (camera.py, lines 67-68)
    delivered,       \* the captured frames recv has returned, in order
    stale,           \* a recv begun after stop_camera returned got a frame
    \* ---- CameraVideoTrack ---------------------------------------------
    rotation,        \* CameraVideoTrack.rotation
    rotations,       \* rotate() calls on the track so far
    commanded,       \* the rotation the latest rotate() call set
    image,           \* what the latest recv returned
    \* ---- viewers of one session ----------------------------------------
    pulled,          \* the captured frames recv has returned, per viewer
    \* ---- the capture subprocess's output, as the reader's read sees it --
    flow,            \* what each subprocess writes: frames, scraps or nothing
    reading,         \* the subprocess each reader's read(2048) waits for
    \* ---- the replies of WebRTCHandler.offer ----------------------------
    response,        \* what the offer handler returned, per connection
    bad_reply,       \* ... and to the latest offer, if it could not be parsed
    \* ---- src/webrtc_server.py: CameraVideoTrack with raw YUV frames -----
    yuv_dims,        \* <<width, height>> of the track
    rpicam_proc,     \* the rpicam-vid process of the track: running or exited
    yuv_spawned,     \* rpicam-vid processes the track has started
    yuv_out,         \* bytes rpicam-vid has written; byte i is the number i
    yuv_taken,       \* bytes stdout.read has returned so far
    yuv_buffer,      \* CameraVideoTrack._buffer
    yuv_frames,      \* the frame_data values _read_yuv_frame returned
    yuv_pc,          \* where recv is: idle, or inside _read_yuv_frame
    yuv_result,      \* what the latest recv returned
    \* ---- stopping a subprocess, call by call ---------------------------
    sigterm,         \* the subprocesses terminate() was called on
    termed,          \* per thread: the subprocess its terminate() went to
    timed_out,       \* per thread: the subprocess its wait(timeout=1) gave up on
    killed,          \* the kill() calls made: target, and what the caller had
                     \* asked to terminate and waited for
    \* ---- the reader's restarts in time ---------------------------------
    elapsed,         \* per reader: ms it has slept since its latest Popen call
    failed,          \* per reader: its latest start attempt raised
    gap,             \* per reader: the ms slept between a failed start attempt
                     \* and the next attempt, at the latest such pair
    \* ---- src/multicore-gpu.py: read_h264_nal_unit ----------------------
    nal_pipe,        \* bytes the encoder has written, not yet read
    nal_written,     \* the units the encoder has written, in order
    nal_closed,      \* the encoder has ended and closed its stdout
    nal_buffer,      \* read_h264_nal_unit's local `buffer`
    nal_pc,          \* where the reader is: idle, or inside read_h264_nal_unit
    nal_units,       \* the units read_h264_nal_unit has returned, in order
    \* ---- src/h264codec.py: camera_reader -------------------------------
    h264_pipe,       \* bytes the encoder has written, not yet read
    h264_written,    \* the units the encoder has written, in order
    h264_closed,     \* the encoder has ended and closed its stdout
    h264_buffer,     \* camera_reader's local `buffer`
    h264_pushed,     \* the nal_unit values handed to the queue, in order
    h264_ended,      \* the reader has found the encoder ended
    \* ---- offer: the request parameters ---------------------------------
    request_json,    \* the body of the offer processed last
    before,          \* the config that offer found
    parsed,          \* an offer has processed its parameters
    \* ---- src/enhanced_server.py: offer with the connection limit -------
    limit_pc,        \* where each offer of this server is
    limit_peers,     \* its peer_connections: the offers whose pc it holds
    connection_count,\* its connection_count
    \* ---- src/deprecated/ultra-low-latency.py: read_mjpeg_frame ---------
    mj_pipe,         \* bytes the capture subprocess has written, not yet read
    mj_written,      \* the units it has written, in order
    mj_closed,       \* it has ended and closed its stdout
    mj_buffer,       \* read_mjpeg_frame's local `buffer`
    mj_pc,           \* where the reader is: idle, or inside read_mjpeg_frame
    mj_frames        \* the frames read_mjpeg_frame has returned, in order

framerVars == <<pipe, buffer, written, junk, emitted, skipped>>
cameraVars == <<camera_running, camera_process, camera_thread, frame_queue,
                proc, pc, capture_cmd>>
sessionVars == <<peer_connections, config, conn, hPending, hClosing,
                 startCalls, stopCalls, sessionCfg, startOutcome>>
handlerVars == <<video_track, sessionVars>>
queueVars == <<maxsize, held, produced, lost, delivered, stale>>
trackVars == <<rotation, rotations, commanded, image>>
viewerVars == <<pulled>>
flowVars == <<flow, reading>>
replyVars == <<response, bad_reply>>
yuvVars == <<yuv_dims, rpicam_proc, yuv_spawned, yuv_out, yuv_taken,
             yuv_buffer, yuv_frames, yuv_pc, yuv_result>>
termVars == <<sigterm, termed, timed_out, killed>>
backoffVars == <<elapsed, failed, gap>>
nalVars == <<nal_pipe, nal_written, nal_closed, nal_buffer, nal_pc, nal_units>>
h264Vars == <<h264_pipe, h264_written, h264_closed, h264_buffer, h264_pushed,
              h264_ended>>
paramsVars == <<request_json, before, parsed>>
limitVars == <<limit_pc, limit_peers, connection_count>>
mjpegVars == <<mj_pipe, mj_written, mj_closed, mj_buffer, mj_pc, mj_frames>>
lateVars == <<paramsVars, limitVars, mjpegVars>>
extVars == <<termVars, backoffVars, nalVars, h264Vars, lateVars>>
vars == <<pipe, buffer, written, junk, emitted, skipped,
          camera_running, camera_process, camera_thread, frame_queue, proc, pc,
          capture_cmd,
          video_track, peer_connections, config, conn, hPending, hClosing,
          startCalls, stopCalls, sessionCfg, startOutcome,
          maxsize, held, produced, lost, delivered, stale,
          rotation, rotations, commanded, image,
          pulled, flow, reading, response, bad_reply,
          yuv_dims, rpicam_proc, yuv_spawned, yuv_out, yuv_taken, yuv_buffer,
          yuv_frames, yuv_pc, yuv_result,
          sigterm, termed, timed_out, killed,
          elapsed, failed, gap,
          nal_pipe, nal_written, nal_closed, nal_buffer, nal_pc, nal_units,
          h264_pipe, h264_written, h264_closed, h264_buffer, h264_pushed,
          h264_ended,
          request_json, before, parsed,
          limit_pc, limit_peers, connection_count,
          mj_pipe, mj_written, mj_closed, mj_buffer, mj_pc, mj_frames>>

(***************************************************************************)
(* Sequences of bytes.                                                     *)
(***************************************************************************)
SeqsUpTo(S, n) == UNION {[1..k -> S] : k \in 0..n}

\* Python slice b[lo:hi] for 0 <= lo, 0-based, hi exclusive, clipped.
Slice(b, lo, hi) ==
    LET h == IF hi > Len(b) THEN Len(b) ELSE hi
    IN  IF lo >= h THEN <<>> ELSE SubSeq(b, lo + 1, h)

\* b has pat at 0-based index i.
MatchAt(b, pat, i) ==
    /\ i >= 0
    /\ i + Len(pat) <= Len(b)
    /\ SubSeq(b, i + 1, i + Len(pat)) = pat

\* bytes.find(pat, from): lowest 0-based index >= from where pat occurs, or -1.
RECURSIVE Find(_, _, _)
Find(b, pat, from) ==
    IF from + Len(pat) > Len(b) THEN -1
    ELSE IF MatchAt(b, pat, from) THEN from
    ELSE Find(b, pat, from + 1)

(***************************************************************************)
(* camera_reader, lines 39-52: the frame extraction loop.                  *)
(***************************************************************************)
JpegStartNoScan(buf) == IF Len(buf) > 0 THEN 0 ELSE -1

JpegStart(buf) == Find(buf, SOI, 0)

JpegEnd(buf, start_idx) == Find(buf, EOI, start_idx)

JpegData(buf, start_idx, end_idx) == Slice(buf, start_idx, end_idx + 2)

RestDropped(buf, end_idx) == <<>>

Rest(buf, end_idx) == Slice(buf, end_idx + 2, Len(buf))

\* One run of `while True:` over the accumulated buffer: the frames taken
\* out, the bytes dropped in front of them, and the buffer that remains.
RECURSIVE ExtractFrames(_, _, _)
ExtractFrames(buf, frames, dropped) ==
    LET start_idx == JpegStart(buf)
        end_idx == IF start_idx = -1 THEN -1 ELSE JpegEnd(buf, start_idx)
    IN  IF start_idx = -1 \/ end_idx = -1
        THEN [frames |-> frames, dropped |-> dropped, buffer |-> buf]
        ELSE ExtractFrames(Rest(buf, end_idx),
                           Append(frames, JpegData(buf, start_idx, end_idx)),
                           dropped \o Slice(buf, 0, start_idx))

(***************************************************************************)
(* The capture subprocess as a byte source.  A well-formed unit is a start *)
(* marker, a payload and an end marker, the end marker being the first one *)
(* in the unit; garbage holds no start marker.                             *)
(***************************************************************************)
Unit(payload) == SOI \o payload \o EOI

WellFormed(u) == Find(u, EOI, 0) = Len(u) - 2

Units == {u \in {Unit(p) : p \in SeqsUpTo(Bytes, MaxExtra)} : WellFormed(u)}

Garbage == {g \in SeqsUpTo(Bytes, MaxExtra) : g # <<>> /\ Find(g, SOI, 0) = -1}

\* Payload and garbage bytes written so far.
RECURSIVE PayloadBytes(_)
PayloadBytes(us) ==
    IF us = <<>> THEN 0 ELSE (Len(Head(us)) - 4) + PayloadBytes(Tail(us))

ExtraBytes == Len(junk) + PayloadBytes(written)

FramerInit0 ==
    /\ pipe = <<>>
    /\ buffer = <<>>
    /\ written = <<>>
    /\ junk = <<>>
    /\ emitted = <<>>
    /\ skipped = <<>>

\* The subprocess writes garbage before its first unit (a stream joined
\* mid-frame, a banner line).  The garbage counts as one of the MaxUnits
\* segments of the run.
WriteGarbage ==
    /\ written = <<>>
    /\ junk = <<>>
    /\ \E g \in Garbage :
        /\ junk' = g
        /\ pipe' = pipe \o g
    /\ UNCHANGED <<buffer, written, emitted, skipped>>
    /\ UNCHANGED <<cameraVars, handlerVars>>
    /\ UNCHANGED <<queueVars, trackVars>>
    /\ UNCHANGED <<viewerVars, flowVars, replyVars, yuvVars>>
    /\ UNCHANGED extVars

\* The subprocess writes one unit to its stdout.
WriteUnit ==
    /\ Len(written) + (IF junk = <<>> THEN 0 ELSE 1) < MaxUnits
    /\ \E u \in Units :
        /\ ExtraBytes + (Len(u) - 4) <= MaxExtra
        /\ written' = Append(written, u)
        /\ pipe' = pipe \o u
    /\ UNCHANGED <<buffer, junk, emitted, skipped>>
    /\ UNCHANGED <<cameraVars, handlerVars>>
    /\ UNCHANGED <<queueVars, trackVars>>
    /\ UNCHANGED <<viewerVars, flowVars, replyVars, yuvVars>>
    /\ UNCHANGED extVars

\* camera_reader, lines 32-52: one read of the pipe (any chunk size that
\* read(2048) can return for these streams) followed by the extraction loop.
ReaderRead ==
    /\ pipe # <<>>
    /\ \E n \in 1..Len(pipe) :
        LET data == Slice(pipe, 0, n)
            r == ExtractFrames(buffer \o data, <<>>, <<>>)
        IN  /\ pipe' = Slice(pipe, n, Len(pipe))
            /\ buffer' = r.buffer
            /\ emitted' = emitted \o r.frames
            /\ skipped' = skipped \o r.dropped
    /\ UNCHANGED <<written, junk>>
    /\ UNCHANGED <<cameraVars, handlerVars>>
    /\ UNCHANGED <<queueVars, trackVars>>
    /\ UNCHANGED <<viewerVars, flowVars, replyVars, yuvVars>>
    /\ UNCHANGED extVars

FramerNext == WriteGarbage \/ WriteUnit \/ ReaderRead

(***************************************************************************)
(* Camera (src/server/camera.py) as threads.  Thread 0 is the asyncio      *)
(* event-loop thread, which runs start_camera and stop_camera; threads     *)
(* 1..MaxThreads are the reader threads start_camera creates.  A step is   *)
(* one access to the Camera's shared fields; Python's interpreter lock     *)
(* makes each such access atomic and lets the threads interleave between   *)
(* them.                                                                   *)
(***************************************************************************)
PcIds == 1..MaxOffers
LimitOffers == 1..MaxLimitOffers
CaptureKeys == {"width", "height", "fps", "quality",
                "sharpness", "contrast", "saturation", "brightness"}

IntKeys == {"width", "height", "fps", "quality"}
FloatKeys == CaptureKeys \ IntKeys

\* A number of a JSON body, and a Python float, is held in hundredths: 2997
\* is 29.97.  Number(n) is the integer n as such a number.
Number(n) == n * 100

\* int(x): the fraction of the number is dropped (the numbers here are not
\* negative).
int(x) == x \div 100

\* float(x): the float of the same value.
float(x) == x

\* CONFIG of main.py, lines 19-27: four integers, and the tuning values
\* 1.0, 1.0, 1.0 and 0.0.
DefaultConfig ==
    [width |-> 320, height |-> 240, fps |-> 60, quality |-> 75,
     sharpness |-> 100, contrast |-> 100, saturation |-> 100,
     brightness |-> 0]

\* The JSON bodies of the offers the clients send (sdp and type left out).
Requests ==
    { [latencyMode |-> "low"],
      [latencyMode |-> "custom", width |-> Number(1280)],
      [quality |-> Number(80)] }

\* dict.get(key, default)
Get(params, key, default) ==
    IF key \in DOMAIN params THEN params[key] ELSE default

\* The settings an offer asks for, were an omitted setting taken from the
\* configuration the server started with.
EffectiveConfigFromDefaults(params, cfg) ==
    LET latency_mode == Get(params, "latencyMode", "ultra")
        asked == [k \in CaptureKeys |->
                    IF k \in IntKeys
                    THEN int(Get(params, k, Number(DefaultConfig[k])))
                    ELSE float(Get(params, k, DefaultConfig[k]))]
    IN  IF latency_mode = "ultra"
        THEN [asked EXCEPT !.width = 320, !.height = 240, !.fps = 60,
                           !.quality = 70]
        ELSE IF latency_mode = "low"
        THEN [asked EXCEPT !.width = 640, !.height = 480, !.fps = 30,
                           !.quality = 75]
        ELSE asked

\* offer, lines 96-114: the settings the offer asks for.  Lines 96-99 apply
\* int() and lines 100-103 float() to the value of the body, or to the value
\* of the config when the body has none.
EffectiveConfig(params, cfg) ==
    LET latency_mode == Get(params, "latencyMode", "ultra")
        asked == [k \in CaptureKeys |->
                    IF k \in IntKeys
                    THEN int(Get(params, k, Number(cfg[k])))
                    ELSE float(Get(params, k, cfg[k]))]
    IN  IF latency_mode = "ultra"
        THEN [asked EXCEPT !.width = 320, !.height = 240, !.fps = 60,
                           !.quality = 70]
        ELSE IF latency_mode = "low"
        THEN [asked EXCEPT !.width = 640, !.height = 480, !.fps = 30,
                           !.quality = 75]
        ELSE asked

\* setup_camera_process, lines 88-107: the command line, one argument per
\* capture setting of the config.
CommandLine(cfg) == [k \in CaptureKeys |-> cfg[k]]

None == 0
MainThread == 0
ProcIds == 1..MaxProcs
ReaderIds == 1..MaxThreads
ThreadIds == {MainThread} \cup ReaderIds
queue_size == 1

Alive == {p \in ProcIds : proc[p] = "alive"}
Unborn == {p \in ProcIds : proc[p] = "unborn"}
FreshProc == CHOOSE p \in Unborn : \A q \in Unborn : p <= q
UnbornThreads == {t \in ReaderIds : pc[t] = "unborn"}
FreshThread == CHOOSE t \in UnbornThreads : \A u \in UnbornThreads : t <= u
LiveReaders == {t \in ReaderIds : pc[t] \notin {"unborn", "done"}}

CameraInit0 ==
    /\ camera_running = FALSE
    /\ camera_process = None
    /\ camera_thread = None
    /\ frame_queue = <<>>
    /\ proc = [p \in ProcIds |-> "unborn"]
    /\ pc = [t \in ThreadIds |-> IF t = MainThread THEN "idle" ELSE "unborn"]
    /\ capture_cmd = CommandLine(DefaultConfig)
    /\ flow = [p \in ProcIds |-> "frames"]
    /\ reading = [t \in ReaderIds |-> None]

\* Where a thread continues when setup_camera_process returns or raises.
\* start_camera lets the exception out (lines 139-141 are skipped); the reader
\* loop catches it (lines 72-74) and goes round again.
AfterSetup(t) == IF t = MainThread THEN "thread" ELSE "loop"
AfterSetupRaised(t) == IF t = MainThread THEN "idle" ELSE "loop"

\* subprocess terminate(), wait(timeout=1) and, when the wait ran out, kill():
\* either way the process is gone.
Terminated(p) == [proc EXCEPT ![p] = "dead"]

\* setup_camera_process, lines 78-83: stop the process the Camera refers to.
SetupTerminate(t) ==
    /\ pc[t] = "setup"
    /\ IF camera_process # None
       THEN /\ proc' = Terminated(camera_process)
            /\ pc' = [pc EXCEPT ![t] = "clear"]
       ELSE /\ pc' = [pc EXCEPT ![t] = "popen"]
            /\ UNCHANGED proc
    /\ UNCHANGED <<camera_running, camera_process, camera_thread, frame_queue>>
    /\ UNCHANGED <<framerVars, handlerVars, capture_cmd>>
    /\ UNCHANGED <<queueVars, trackVars>>
    /\ UNCHANGED <<viewerVars, flowVars, replyVars, yuvVars>>
    /\ UNCHANGED extVars

\* setup_camera_process, line 84.
SetupClear(t) ==
    /\ pc[t] = "clear"
    /\ camera_process' = None
    /\ pc' = [pc EXCEPT ![t] = "popen"]
    /\ UNCHANGED <<camera_running, camera_thread, frame_queue, proc>>
    /\ UNCHANGED <<framerVars, handlerVars, capture_cmd>>
    /\ UNCHANGED <<queueVars, trackVars>>
    /\ UNCHANGED <<viewerVars, flowVars, replyVars, yuvVars>>
    /\ UNCHANGED extVars

\* setup_camera_process, lines 113-118: Popen starts a process (which may
\* exit at once) and the Camera refers to it.
SetupPopen(t) ==
    /\ pc[t] = "popen"
    /\ Unborn # {}
    /\ \E outcome \in {"alive", "dead"} :
        proc' = [proc EXCEPT ![FreshProc] = outcome]
    /\ camera_process' = FreshProc
    /\ capture_cmd' = CommandLine(config)
    /\ pc' = [pc EXCEPT ![t] = "verify"]
    /\ UNCHANGED <<camera_running, camera_thread, frame_queue>>
    /\ UNCHANGED <<framerVars, handlerVars>>
    /\ UNCHANGED <<queueVars, trackVars>>
    /\ UNCHANGED <<viewerVars, flowVars, replyVars, yuvVars>>
    /\ UNCHANGED extVars

\* setup_camera_process, lines 129-131: rpicam-vid is not installed.
SetupPopenNotFound(t) ==
    /\ pc[t] = "popen"
    /\ Unborn = ProcIds
    /\ pc' = [pc EXCEPT ![t] = AfterSetupRaised(t)]
    /\ UNCHANGED <<camera_running, camera_process, camera_thread, frame_queue,
                   proc>>
    /\ UNCHANGED <<framerVars, handlerVars, capture_cmd>>
    /\ UNCHANGED <<queueVars, trackVars>>
    /\ UNCHANGED <<viewerVars, flowVars, replyVars, yuvVars>>
    /\ UNCHANGED extVars

\* setup_camera_process, lines 121-127 and 132-134: the startup check, 0.1 s
\* after Popen, on whatever the Camera refers to by then.
SetupVerify(t) ==
    /\ pc[t] = "verify"
    /\ IF camera_process # None /\ proc[camera_process] = "alive"
       THEN pc' = [pc EXCEPT ![t] = AfterSetup(t)]
       ELSE pc' = [pc EXCEPT ![t] = AfterSetupRaised(t)]
    /\ UNCHANGED <<camera_running, camera_process, camera_thread, frame_queue,
                   proc>>
    /\ UNCHANGED <<framerVars, handlerVars, capture_cmd>>
    /\ UNCHANGED <<queueVars, trackVars>>
    /\ UNCHANGED <<viewerVars, flowVars, replyVars, yuvVars>>
    /\ UNCHANGED extVars

\* start_camera, lines 138-139, called by offer when video_track is None
\* (webrtc_handler.py, lines 136-139).
StartCamera ==
    /\ pc[MainThread] = "idle"
    /\ ~video_track
    /\ UnbornThreads # {}
    /\ video_track' = TRUE
    /\ camera_running' = TRUE
    /\ pc' = [pc EXCEPT ![MainThread] = "setup"]
    /\ UNCHANGED <<camera_process, camera_thread, frame_queue, proc>>
    /\ UNCHANGED <<framerVars, sessionVars, capture_cmd>>
    /\ UNCHANGED <<queueVars, trackVars>>
    /\ UNCHANGED <<viewerVars, flowVars, replyVars, yuvVars>>
    /\ UNCHANGED extVars

\* start_camera, lines 140-141.
StartThread ==
    /\ pc[MainThread] = "thread"
    /\ camera_thread' = FreshThread
    /\ pc' = [pc EXCEPT ![MainThread] = "idle", ![FreshThread] = "loop"]
    /\ UNCHANGED <<camera_running, camera_process, frame_queue, proc>>
    /\ UNCHANGED <<framerVars, handlerVars, capture_cmd>>
    /\ UNCHANGED <<queueVars, trackVars>>
    /\ UNCHANGED <<viewerVars, flowVars, replyVars, yuvVars>>
    /\ UNCHANGED extVars

\* stop_camera, line 146, called by the connection-state handler when the
\* last peer has gone (webrtc_handler.py, lines 156-158).
StopCamera ==
    /\ pc[MainThread] = "idle"
    /\ video_track
    /\ camera_running' = FALSE
    /\ pc' = [pc EXCEPT ![MainThread] = "stop"]
    /\ UNCHANGED <<camera_process, camera_thread, frame_queue, proc>>
    /\ UNCHANGED <<framerVars, handlerVars, capture_cmd>>
    /\ UNCHANGED <<queueVars, trackVars>>
    /\ UNCHANGED <<viewerVars, flowVars, replyVars, yuvVars>>
    /\ UNCHANGED extVars

\* stop_camera, line 148: the call goes on to terminate a subprocess.
StopTerminates == camera_process # None

\* stop_camera, lines 148-155.
StopTerminate ==
    /\ pc[MainThread] = "stop"
    /\ IF StopTerminates
       THEN /\ proc' = Terminated(camera_process)
            /\ pc' = [pc EXCEPT ![MainThread] = "stop_clear"]
       ELSE /\ pc' = [pc EXCEPT ![MainThread] = "join"]
            /\ UNCHANGED proc
    /\ UNCHANGED <<camera_running, camera_process, camera_thread, frame_queue>>
    /\ UNCHANGED <<framerVars, handlerVars, capture_cmd>>
    /\ UNCHANGED <<queueVars, trackVars>>
    /\ UNCHANGED <<viewerVars, flowVars, replyVars, yuvVars>>
    /\ UNCHANGED extVars

\* stop_camera, line 156.
StopClear ==
    /\ pc[MainThread] = "stop_clear"
    /\ camera_process' = None
    /\ pc' = [pc EXCEPT ![MainThread] = "join"]
    /\ UNCHANGED <<camera_running, camera_thread, frame_queue, proc>>
    /\ UNCHANGED <<framerVars, handlerVars, capture_cmd>>
    /\ UNCHANGED <<queueVars, trackVars>>
    /\ UNCHANGED <<viewerVars, flowVars, replyVars, yuvVars>>
    /\ UNCHANGED extVars

\* The reader thread stop_camera waits for has ended.
JoinedThreadEnded ==
    camera_thread = None \/ pc[camera_thread] = "done"

\* join() with no timeout.
JoinNeverTimesOut == JoinedThreadEnded

\* stop_camera, lines 158-159: join(timeout=1) returns when the thread has
\* ended or when the second is over, whichever comes first.
JoinReturns == TRUE

StopJoin ==
    /\ pc[MainThread] = "join"
    /\ JoinReturns
    /\ pc' = [pc EXCEPT ![MainThread] = "drain"]
    /\ UNCHANGED <<camera_running, camera_process, camera_thread, frame_queue,
                   proc>>
    /\ UNCHANGED <<framerVars, handlerVars, capture_cmd>>
    /\ UNCHANGED <<queueVars, trackVars>>
    /\ UNCHANGED <<viewerVars, flowVars, replyVars, yuvVars>>
    /\ UNCHANGED extVars

\* stop_camera, lines 161-168, and webrtc_handler.py, line 159.
StopDrain ==
    /\ pc[MainThread] = "drain"
    /\ frame_queue' = <<>>
    /\ video_track' = FALSE
    /\ pc' = [pc EXCEPT ![MainThread] = "idle"]
    /\ UNCHANGED <<camera_running, camera_process, camera_thread, proc>>
    /\ UNCHANGED <<framerVars, sessionVars, capture_cmd>>
    /\ UNCHANGED <<queueVars, trackVars>>
    /\ UNCHANGED <<viewerVars, flowVars, replyVars, yuvVars>>
    /\ UNCHANGED extVars

\* camera_reader, line 23.
ReaderLoop(t) ==
    /\ pc[t] = "loop"
    /\ pc' = [pc EXCEPT ![t] = IF camera_running THEN "check" ELSE "done"]
    /\ UNCHANGED <<camera_running, camera_process, camera_thread, frame_queue,
                   proc>>
    /\ UNCHANGED <<framerVars, handlerVars, capture_cmd>>
    /\ UNCHANGED <<queueVars, trackVars>>
    /\ UNCHANGED <<viewerVars, flowVars, replyVars, yuvVars>>
    /\ UNCHANGED extVars

\* Line 25 without poll().
ProcessGoneNoPoll == camera_process = None

\* camera_reader, line 25.
ProcessGone ==
    camera_process = None \/ proc[camera_process] # "alive"

\* camera_reader, lines 25-26 and 31.
ReaderCheck(t) ==
    /\ pc[t] = "check"
    /\ pc' = [pc EXCEPT ![t] = IF ProcessGone THEN "setup" ELSE "read"]
    /\ UNCHANGED <<camera_running, camera_process, camera_thread, frame_queue,
                   proc>>
    /\ UNCHANGED <<framerVars, handlerVars, capture_cmd>>
    /\ UNCHANGED <<queueVars, trackVars>>
    /\ UNCHANGED <<viewerVars, flowVars, replyVars, yuvVars>>
    /\ UNCHANGED extVars

\* camera_reader, lines 61-68: put, and on queue.Full drop the oldest frame
\* and put again.
Push(q, frame) ==
    IF Len(q) < queue_size THEN Append(q, frame) ELSE Append(Tail(q), frame)

\* camera_reader, lines 32-68: a read that completes a frame of the process
\* the Camera refers to; the frame is decoded and pushed.
ReaderReadFrame(t) ==
    /\ pc[t] = "read"
    /\ camera_process # None
    /\ proc[camera_process] = "alive"
    /\ frame_queue' = Push(frame_queue, camera_process)
    /\ pc' = [pc EXCEPT ![t] = "loop"]
    /\ UNCHANGED <<camera_running, camera_process, camera_thread, proc>>
    /\ UNCHANGED <<framerVars, handlerVars, capture_cmd>>
    /\ UNCHANGED <<queueVars, trackVars>>
    /\ UNCHANGED <<viewerVars, flowVars, replyVars, yuvVars>>
    /\ UNCHANGED extVars

\* camera_reader, lines 32-34, 47-48 and 72-74: a read that completes no
\* frame: data that ends inside a unit, end of file from a process that has
\* ended, or no process to read from.
ReaderReadNothing(t) ==
    /\ pc[t] = "read"
    /\ pc' = [pc EXCEPT ![t] = "loop"]
    /\ UNCHANGED <<camera_running, camera_process, camera_thread, frame_queue,
                   proc>>
    /\ UNCHANGED <<framerVars, handlerVars, capture_cmd>>
    /\ UNCHANGED <<queueVars, trackVars>>
    /\ UNCHANGED <<viewerVars, flowVars, replyVars, yuvVars>>
    /\ UNCHANGED extVars

\* CameraVideoTrack.recv (webrtc_handler.py, lines 33-57), run by the event
\* loop for a viewer: queue.get takes the oldest frame.  With the queue
\* empty recv returns a black frame and changes nothing.
TrackRecv ==
    /\ pc[MainThread] = "idle"
    /\ video_track
    /\ frame_queue # <<>>
    /\ frame_queue' = Tail(frame_queue)
    /\ UNCHANGED <<camera_running, camera_process, camera_thread, proc, pc>>
    /\ UNCHANGED <<framerVars, handlerVars, capture_cmd>>
    /\ UNCHANGED <<queueVars, trackVars>>
    /\ UNCHANGED <<viewerVars, flowVars, replyVars, yuvVars>>
    /\ UNCHANGED extVars

\* The capture subprocess exits on its own (camera error, crash).
ProcessExits(p) ==
    /\ proc[p] = "alive"
    /\ proc' = [proc EXCEPT ![p] = "dead"]
    /\ UNCHANGED <<camera_running, camera_process, camera_thread, frame_queue,
                   pc>>
    /\ UNCHANGED <<framerVars, handlerVars, capture_cmd>>
    /\ UNCHANGED <<queueVars, trackVars>>
    /\ UNCHANGED <<viewerVars, flowVars, replyVars, yuvVars>>
    /\ UNCHANGED extVars

SetupStep(t) ==
    \/ SetupTerminate(t)
    \/ SetupClear(t)
    \/ SetupPopen(t)
    \/ SetupPopenNotFound(t)
    \/ SetupVerify(t)

ReaderStep(t) ==
    \/ ReaderLoop(t)
    \/ ReaderCheck(t)
    \/ ReaderReadFrame(t)
    \/ ReaderReadNothing(t)
    \/ SetupStep(t)

CameraNext ==
    \/ StartCamera
    \/ StartThread
    \/ StopCamera
    \/ StopTerminate
    \/ StopClear
    \/ StopJoin
    \/ StopDrain
    \/ TrackRecv
    \/ SetupStep(MainThread)
    \/ \E t \in ReaderIds : ReaderStep(t)
    \/ \E p \in ProcIds : ProcessExits(p)

(***************************************************************************)
(* WebRTCHandler (src/server/webrtc_handler.py) on the asyncio event loop. *)
(* Between two awaits a coroutine runs alone, so each action below is the  *)
(* code from one await to the next.  start_camera and stop_camera are      *)
(* plain calls: the event-loop thread runs them to completion inside the   *)
(* action that calls them.                                                 *)
(***************************************************************************)
\* offer, lines 143-145: evaluated after lines 117-119 stored the offer's
\* width, height and fps in the config, with which it compares them.
RestartNeeded(asked, cfg) ==
    \/ asked.width # cfg.width
    \/ asked.height # cfg.height
    \/ asked.fps # cfg.fps

\* The Camera's fields as one value, for the calls the handler makes.
Cam ==
    [running |-> camera_running, process |-> camera_process,
     thread |-> camera_thread, queue |-> frame_queue, proc |-> proc,
     pc |-> pc, cmd |-> capture_cmd, raised |-> FALSE]

\* setup_camera_process run to completion: lines 78-84, Popen, the startup
\* check.  launch is what became of the process: "alive", "dead" (it exited
\* within the 0.1 s) or "notfound" (no rpicam-vid to run).
SetupCameraProcessOn(cam, cfg, launch) ==
    LET stopped == IF cam.process = None THEN cam.proc
                   ELSE [cam.proc EXCEPT ![cam.process] = "dead"]
        fresh == CHOOSE p \in ProcIds :
                    /\ stopped[p] = "unborn"
                    /\ \A q \in ProcIds : stopped[q] = "unborn" => p <= q
    IN  IF launch = "notfound"
        THEN [cam EXCEPT !.proc = stopped, !.process = None, !.raised = TRUE]
        ELSE [cam EXCEPT !.proc = [stopped EXCEPT ![fresh] = launch],
                         !.process = fresh,
                         !.cmd = CommandLine(cfg),
                         !.raised = (launch = "dead")]

\* start_camera, lines 138-141, run to completion.
StartCameraOn(cam, cfg, launch) ==
    LET set == SetupCameraProcessOn([cam EXCEPT !.running = TRUE], cfg, launch)
        t == CHOOSE u \in ReaderIds :
                /\ cam.pc[u] = "unborn"
                /\ \A v \in ReaderIds : cam.pc[v] = "unborn" => u <= v
    IN  IF set.raised THEN set
        ELSE [set EXCEPT !.thread = t, !.pc = [cam.pc EXCEPT ![t] = "loop"]]

\* stop_camera, lines 146-168, run to completion; the reader thread sees
\* camera_running False and ends within the join.
StopCameraOn(cam) ==
    [cam EXCEPT
        !.running = FALSE,
        !.proc = IF cam.process = None THEN cam.proc
                 ELSE [cam.proc EXCEPT ![cam.process] = "dead"],
        !.process = None,
        !.pc = [t \in ThreadIds |->
                    IF t \in ReaderIds /\ cam.pc[t] = "loop" THEN "done"
                    ELSE cam.pc[t]],
        !.queue = <<>>]

SetCamera(cam) ==
    /\ camera_running' = cam.running
    /\ camera_process' = cam.process
    /\ camera_thread' = cam.thread
    /\ frame_queue' = cam.queue
    /\ proc' = cam.proc
    /\ pc' = cam.pc
    /\ capture_cmd' = cam.cmd

\* What offer returns (webrtc_handler.py, lines 176-188): the answer with
\* sdp and type, or {"error": message} with status 500.
NoResponse == [status |-> 0, body |-> "none"]
AnswerResponse == [status |-> 200, body |-> "sdp and type"]
ErrorResponse == [status |-> 500, body |-> "error"]

\* offer without its except clause: the exception leaves the handler.
ExceptionEscapes == [status |-> 0, body |-> "raised"]

\* offer, lines 186-188: whatever the try block (lines 91-184) raises is
\* caught and answered with the error object.
OnException == ErrorResponse

HandlerInit0 ==
    /\ video_track = FALSE
    /\ peer_connections = {}
    /\ config = DefaultConfig
    /\ conn = [c \in PcIds |-> "unused"]
    /\ hPending = [c \in PcIds |-> 0]
    /\ hClosing = [c \in PcIds |-> 0]
    /\ startCalls = 0
    /\ stopCalls = 0
    /\ sessionCfg = DefaultConfig
    /\ startOutcome = "none"
    /\ response = [c \in PcIds |-> NoResponse]
    /\ bad_reply = NoResponse

Launches == {"alive", "dead", "notfound"}

\* rpicam-vid is installed or it is not: "not found" is met by the first
\* launch of a run or never.
CanLaunch(launch) ==
    /\ Unborn # {}
    /\ UnbornThreads # {}
    /\ launch = "notfound" => Unborn = ProcIds

\* offer, lines 92-148 and 150-170: from the parsed request to the first
\* await after the connection is registered.  c is the RTCPeerConnection
\* made at line 132.
\* First case, lines 136-139: no track yet, the camera is started.
OfferStartsCamera(c) ==
    /\ conn[c] = "unused"
    /\ \A d \in PcIds : d < c => conn[d] # "unused"
    /\ ~video_track
    /\ \E params \in Requests, launch \in Launches :
        LET asked == EffectiveConfig(params, config)
            cam == StartCameraOn(Cam, asked, launch)
        IN  /\ CanLaunch(launch)
            /\ config' = asked
            /\ peer_connections' = peer_connections \cup {c}
            /\ video_track' = TRUE
            /\ SetCamera(cam)
            /\ startCalls' = startCalls + 1
            /\ sessionCfg' = asked
            /\ startOutcome' = IF cam.raised THEN "raised" ELSE "ok"
            /\ conn' = [conn EXCEPT ![c] = IF cam.raised THEN "start_failed"
                                           ELSE "negotiating"]
            /\ response' = [response EXCEPT ![c] = IF cam.raised
                                                   THEN OnException ELSE @]
    /\ bad_reply' = NoResponse
    /\ UNCHANGED <<hPending, hClosing, stopCalls>>
    /\ UNCHANGED framerVars
    /\ UNCHANGED <<queueVars, trackVars>>
    /\ UNCHANGED <<viewerVars, flowVars, yuvVars>>
    /\ UNCHANGED extVars

\* Second case, lines 140-148: the track exists and is reused.
OfferReusesTrack(c) ==
    /\ conn[c] = "unused"
    /\ \A d \in PcIds : d < c => conn[d] # "unused"
    /\ video_track
    /\ \E params \in Requests, launch \in Launches :
        LET asked == EffectiveConfig(params, config)
            restart == RestartNeeded(asked, asked)
            cam == IF restart
                   THEN StartCameraOn(StopCameraOn(Cam), asked, launch)
                   ELSE Cam
        IN  /\ IF restart THEN CanLaunch(launch) ELSE launch = "alive"
            /\ config' = asked
            /\ peer_connections' = peer_connections \cup {c}
            /\ SetCamera(cam)
            /\ startCalls' = IF restart THEN startCalls + 1 ELSE startCalls
            /\ stopCalls' = IF restart THEN stopCalls + 1 ELSE stopCalls
            /\ sessionCfg' = IF restart THEN asked ELSE sessionCfg
            /\ startOutcome' = IF ~restart THEN startOutcome
                               ELSE IF cam.raised THEN "raised" ELSE "ok"
            /\ conn' = [conn EXCEPT ![c] = IF cam.raised THEN "start_failed"
                                           ELSE "negotiating"]
            /\ response' = [response EXCEPT ![c] = IF cam.raised
                                                   THEN OnException ELSE @]
    /\ bad_reply' = NoResponse
    /\ UNCHANGED <<video_track, hPending, hClosing>>
    /\ UNCHANGED framerVars
    /\ UNCHANGED <<queueVars, trackVars>>
    /\ UNCHANGED <<viewerVars, flowVars, yuvVars>>
    /\ UNCHANGED extVars

\* offer, lines 170-181: the description is set, the answer made and sent.
OfferAnswered(c) ==
    /\ conn[c] = "negotiating"
    /\ conn' = [conn EXCEPT ![c] = "connected"]
    /\ response' = [response EXCEPT ![c] = AnswerResponse]
    /\ UNCHANGED <<video_track, peer_connections, config, hPending, hClosing,
                   startCalls, stopCalls, sessionCfg, startOutcome, bad_reply>>
    /\ UNCHANGED <<framerVars, cameraVars>>
    /\ UNCHANGED <<queueVars, trackVars>>
    /\ UNCHANGED <<viewerVars, flowVars, yuvVars>>
    /\ UNCHANGED extVars

\* offer, lines 170-174 and 182-188: setRemoteDescription, createAnswer or
\* setLocalDescription raises, or no description comes out; answer 500.
OfferRejected(c) ==
    /\ conn[c] = "negotiating"
    /\ conn' = [conn EXCEPT ![c] = "rejected"]
    /\ \E failure \in {"raised", "no description"} :
        response' = [response EXCEPT ![c] = IF failure = "raised"
                                             THEN OnException
                                             ELSE ErrorResponse]
    /\ UNCHANGED <<video_track, peer_connections, config, hPending, hClosing,
                   startCalls, stopCalls, sessionCfg, startOutcome, bad_reply>>
    /\ UNCHANGED <<framerVars, cameraVars>>
    /\ UNCHANGED <<queueVars, trackVars>>
    /\ UNCHANGED <<viewerVars, flowVars, yuvVars>>
    /\ UNCHANGED extVars

\* offer, lines 91-104 and 186-188: the body is not JSON, has no "sdp" or
\* "type", or carries a setting int() refuses.  The exception is raised
\* before the config is written and before a connection is made.  The
\* offer is one of the MaxOffers offers of the run it comes in.
OfferMalformed ==
    /\ \E c \in PcIds : conn[c] = "unused"
    /\ bad_reply' = OnException
    /\ UNCHANGED <<handlerVars, response>>
    /\ UNCHANGED <<framerVars, cameraVars>>
    /\ UNCHANGED <<queueVars, trackVars>>
    /\ UNCHANGED <<viewerVars, flowVars, yuvVars>>
    /\ UNCHANGED extVars

GoneStates == {"failed", "closed", "disconnected"}

\* The transport reports that a connected peer is gone; the event emitter
\* schedules on_connectionstatechange as a task (line 150).
ConnectionLost(c) ==
    /\ \/ /\ conn[c] = "connected"
          /\ \E s \in {"disconnected", "failed"} :
                conn' = [conn EXCEPT ![c] = s]
    /\ hPending' = [hPending EXCEPT ![c] = @ + 1]
    /\ UNCHANGED <<video_track, peer_connections, config, hClosing,
                   startCalls, stopCalls, sessionCfg, startOutcome>>
    /\ UNCHANGED <<framerVars, cameraVars>>
    /\ UNCHANGED <<queueVars, trackVars>>
    /\ UNCHANGED <<viewerVars, flowVars, replyVars, yuvVars>>
    /\ UNCHANGED extVars

\* on_connectionstatechange, lines 151-154: the task runs up to its await.
\* pc.close() of a connection that is not closed yet closes it, which emits
\* the event once more.
HandlerCloses(c) ==
    /\ hPending[c] > 0
    /\ conn[c] \in GoneStates
    /\ conn' = [conn EXCEPT ![c] = "closed"]
    /\ hPending' = [hPending EXCEPT
                        ![c] = IF conn[c] = "closed" THEN @ - 1 ELSE @]
    /\ hClosing' = [hClosing EXCEPT ![c] = @ + 1]
    /\ UNCHANGED <<video_track, peer_connections, config, startCalls,
                   stopCalls, sessionCfg, startOutcome>>
    /\ UNCHANGED <<framerVars, cameraVars>>
    /\ UNCHANGED <<queueVars, trackVars>>
    /\ UNCHANGED <<viewerVars, flowVars, replyVars, yuvVars>>
    /\ UNCHANGED extVars

\* Line 156 without its test of video_track, and without its test of the set.
LastPeerGoneNoTrackTest(pcs) == pcs = {}

LastPeerGoneAnyPeer(pcs) == video_track

\* on_connectionstatechange, line 156.
LastPeerGone(pcs) == pcs = {} /\ video_track

\* on_connectionstatechange, lines 155-159: after the await.
HandlerDiscards(c) ==
    /\ hClosing[c] > 0
    /\ hClosing' = [hClosing EXCEPT ![c] = @ - 1]
    /\ peer_connections' = peer_connections \ {c}
    /\ IF LastPeerGone(peer_connections')
       THEN /\ SetCamera(StopCameraOn(Cam))
            /\ stopCalls' = stopCalls + 1
            /\ video_track' = FALSE
       ELSE /\ UNCHANGED cameraVars
            /\ UNCHANGED <<stopCalls, video_track>>
    /\ UNCHANGED <<config, conn, hPending, startCalls, sessionCfg,
                   startOutcome>>
    /\ UNCHANGED framerVars
    /\ UNCHANGED <<queueVars, trackVars>>
    /\ UNCHANGED <<viewerVars, flowVars, replyVars, yuvVars>>
    /\ UNCHANGED extVars

\* camera_reader, lines 23-29, run to completion by the reader thread of the
\* running session: a process that is gone is replaced, with the command
\* line the config gives at that moment.
ReaderRestarts ==
    /\ camera_running
    /\ LiveReaders # {}
    /\ ProcessGone
    /\ Unborn # {}
    /\ \E launch \in {"alive", "dead"} :
        SetCamera(SetupCameraProcessOn(Cam, config, launch))
    /\ UNCHANGED handlerVars
    /\ UNCHANGED framerVars
    /\ UNCHANGED <<queueVars, trackVars>>
    /\ UNCHANGED <<viewerVars, flowVars, replyVars, yuvVars>>
    /\ UNCHANGED extVars

HandlerNext ==
    \/ OfferMalformed
    \/ \E c \in PcIds : OfferStartsCamera(c)
    \/ \E c \in PcIds : OfferReusesTrack(c)
    \/ \E c \in PcIds : OfferAnswered(c)
    \/ \E c \in PcIds : OfferRejected(c)
    \/ \E c \in PcIds : ConnectionLost(c)
    \/ \E c \in PcIds : HandlerCloses(c)
    \/ \E c \in PcIds : HandlerDiscards(c)
    \/ ReaderRestarts
    \/ \E p \in ProcIds : ProcessExits(p)

(***************************************************************************)
(* Specifications.                                                         *)
(***************************************************************************)
\* Queue and track as main.py makes them: Camera.__init__, line 14, and
\* CameraVideoTrack.__init__, line 29.
NoImage == [kind |-> "none", rows |-> 0, cols |-> 0, turned |-> 0, asked |-> 0]

QueueInit0 ==
    /\ maxsize = queue_size
    /\ held = [t \in ReaderIds |-> 0]
    /\ produced = 0
    /\ lost = {}
    /\ delivered = <<>>
    /\ stale = FALSE
    /\ pulled = [v \in PcIds |-> {}]

\* src/webrtc_server.py, CameraVideoTrack.__init__, lines 356-365, for the
\* geometry of CONFIG: the buffer is empty and _setup_camera has started
\* rpicam-vid.
YuvInit0 ==
    /\ yuv_dims = <<2, 2>>
    /\ rpicam_proc = "running"
    /\ yuv_spawned = 1
    /\ yuv_out = 0
    /\ yuv_taken = 0
    /\ yuv_buffer = <<>>
    /\ yuv_frames = <<>>
    /\ yuv_pc = "idle"
    /\ yuv_result = "none"

TrackInit0 ==
    /\ rotation = 0
    /\ rotations = 0
    /\ commanded = 0
    /\ image = NoImage

\* No subprocess has been asked to stop.
TermInit0 ==
    /\ sigterm = {}
    /\ termed = [t \in ThreadIds |-> None]
    /\ timed_out = [t \in ThreadIds |-> None]
    /\ killed = {}

\* No reader has made a start attempt.
NoGap == 0 - 1
BackoffInit0 ==
    /\ elapsed = [t \in ReaderIds |-> 0]
    /\ failed = [t \in ReaderIds |-> FALSE]
    /\ gap = [t \in ReaderIds |-> NoGap]
\* The encoder has written nothing and the reader has made no call.
NalInit0 ==
    /\ nal_pipe = <<>>
    /\ nal_written = <<>>
    /\ nal_closed = FALSE
    /\ nal_buffer = <<>>
    /\ nal_pc = "idle"
    /\ nal_units = <<>>
\* The encoder has written nothing and the reader's buffer is empty.
H264Init0 ==
    /\ h264_pipe = <<>>
    /\ h264_written = <<>>
    /\ h264_closed = FALSE
    /\ h264_buffer = <<>>
    /\ h264_pushed = <<>>
    /\ h264_ended = FALSE
\* No offer has been processed.
ParamsInit0 ==
    /\ request_json = <<>>
    /\ before = DefaultConfig
    /\ parsed = FALSE
\* WebRTCServer.__init__, lines 396-397, and no offer has arrived.
LimitInit0 ==
    /\ limit_pc = [o \in LimitOffers |-> "new"]
    /\ limit_peers = {}
    /\ connection_count = 0
\* The capture subprocess has written nothing and no call is under way.
MjpegInit0 ==
    /\ mj_pipe = <<>>
    /\ mj_written = <<>>
    /\ mj_closed = FALSE
    /\ mj_buffer = <<>>
    /\ mj_pc = "idle"
    /\ mj_frames = <<>>

Init ==
    /\ FramerInit0 /\ CameraInit0 /\ HandlerInit0 /\ QueueInit0 /\ TrackInit0
    /\ YuvInit0
    /\ TermInit0 /\ BackoffInit0 /\ NalInit0 /\ H264Init0 /\ LimitInit0
    /\ MjpegInit0 /\ ParamsInit0

(***************************************************************************)
(* The frame queue between the reader thread and CameraVideoTrack.recv.    *)
(* The reader's push (camera.py, lines 61-68) is three queue calls, and    *)
(* the event-loop thread may run between any two of them.  A frame is the  *)
(* number of its decoding, so frames are numbered in production order.     *)
(* The capture subprocess stays out of this view: a session is started     *)
(* with a working capture, when the reader of the session before has       *)
(* ended, and a reader that decodes no frame (end of file, restart of the  *)
(* subprocess, half a unit) just goes round its loop.                      *)
(***************************************************************************)
QueueSizes == 1..MaxQueue

\* queue.Queue: put(block=False) raises Full when maxsize items are held.
QueueNeverFull(q) == FALSE

QueueFull(q) == Len(q) >= maxsize

\* queue.Queue: put adds at the tail.
PutFront(q, frame) == <<frame>> \o q

Put(q, frame) == Append(q, frame)

\* queue.Queue: what get_nowait of the reader (line 65) leaves.
DropNewest(q) == SubSeq(q, 1, Len(q) - 1)

GetNowait(q) == Tail(q)

\* queue.Queue: what get of recv (webrtc_handler.py, line 37) leaves.
AfterGetKept(q) == q

AfterGet(q) == Tail(q)

\* The frames successive get calls return until the queue is empty.
RECURSIVE Drain(_)
Drain(q) == IF q = <<>> THEN <<>> ELSE <<Head(q)>> \o Drain(AfterGet(q))

QueueInit ==
    /\ FramerInit0 /\ CameraInit0 /\ HandlerInit0 /\ TrackInit0 /\ YuvInit0
    /\ TermInit0 /\ BackoffInit0 /\ NalInit0 /\ H264Init0 /\ LimitInit0
    /\ MjpegInit0 /\ ParamsInit0
    /\ maxsize \in QueueSizes
    /\ held = [t \in ReaderIds |-> 0]
    /\ produced = 0
    /\ lost = {}
    /\ delivered = <<>>
    /\ stale = FALSE
    /\ pulled = [v \in PcIds |-> {}]

\* offer, lines 136-139, with a start_camera that succeeds: the track is
\* made and the reader thread started.
QueueStart ==
    /\ pc[MainThread] = "idle"
    /\ ~video_track
    /\ UnbornThreads # {}
    /\ LiveReaders = {}
    /\ video_track' = TRUE
    /\ camera_running' = TRUE
    /\ camera_thread' = FreshThread
    /\ pc' = [pc EXCEPT ![FreshThread] = "loop"]
    /\ UNCHANGED <<camera_process, frame_queue, proc, capture_cmd>>
    /\ UNCHANGED <<framerVars, sessionVars, queueVars, trackVars>>
    /\ UNCHANGED <<viewerVars, flowVars, replyVars, yuvVars>>
    /\ UNCHANGED extVars

\* stop_camera, lines 146-156, called at webrtc_handler.py, line 158: the
\* flag is cleared and the subprocess stopped.
QueueStop ==
    /\ pc[MainThread] = "idle"
    /\ video_track
    /\ camera_running' = FALSE
    /\ pc' = [pc EXCEPT ![MainThread] = "join"]
    /\ UNCHANGED <<camera_process, camera_thread, frame_queue, proc,
                   capture_cmd>>
    /\ UNCHANGED <<framerVars, handlerVars, queueVars, trackVars>>
    /\ UNCHANGED <<viewerVars, flowVars, replyVars, yuvVars>>
    /\ UNCHANGED extVars

\* camera_reader, lines 25-57: the pass decoded a frame; it holds for one
\* the capture wrote while the session was running.
QueueReaderDecodes(t) ==
    /\ pc[t] = "check"
    /\ camera_running
    /\ produced < MaxFrames
    /\ produced' = produced + 1
    /\ held' = [held EXCEPT ![t] = produced + 1]
    /\ pc' = [pc EXCEPT ![t] = "put"]
    /\ UNCHANGED <<maxsize, lost, delivered, stale>>
    /\ UNCHANGED <<camera_running, camera_process, camera_thread, frame_queue,
                   proc, capture_cmd>>
    /\ UNCHANGED <<framerVars, handlerVars, trackVars>>
    /\ UNCHANGED <<viewerVars, flowVars, replyVars, yuvVars>>
    /\ UNCHANGED extVars

\* camera_reader, lines 25-48: the pass decoded nothing.
QueueReaderIdles(t) ==
    /\ pc[t] = "check"
    /\ pc' = [pc EXCEPT ![t] = "loop"]
    /\ UNCHANGED <<camera_running, camera_process, camera_thread, frame_queue,
                   proc, capture_cmd>>
    /\ UNCHANGED <<framerVars, handlerVars, queueVars, trackVars>>
    /\ UNCHANGED <<viewerVars, flowVars, replyVars, yuvVars>>
    /\ UNCHANGED extVars

\* camera_reader, lines 61-63: put(frame, block=False).
QueuePut(t) ==
    /\ pc[t] = "put"
    /\ IF QueueFull(frame_queue)
       THEN /\ pc' = [pc EXCEPT ![t] = "full"]
            /\ UNCHANGED <<frame_queue, held>>
       ELSE /\ frame_queue' = Put(frame_queue, held[t])
            /\ held' = [held EXCEPT ![t] = 0]
            /\ pc' = [pc EXCEPT ![t] = "loop"]
    /\ UNCHANGED <<maxsize, produced, lost, delivered, stale>>
    /\ UNCHANGED <<camera_running, camera_process, camera_thread, proc,
                   capture_cmd>>
    /\ UNCHANGED <<framerVars, handlerVars, trackVars>>
    /\ UNCHANGED <<viewerVars, flowVars, replyVars, yuvVars>>
    /\ UNCHANGED extVars

\* camera_reader, lines 64-65 and 67-68: get_nowait() removes the oldest
\* frame; on an empty queue it raises and the bare except gives the frame up.
QueueEvict(t) ==
    /\ pc[t] = "full"
    /\ IF frame_queue = <<>>
       THEN /\ lost' = lost \cup {held[t]}
            /\ held' = [held EXCEPT ![t] = 0]
            /\ pc' = [pc EXCEPT ![t] = "loop"]
            /\ UNCHANGED frame_queue
       ELSE /\ frame_queue' = GetNowait(frame_queue)
            /\ pc' = [pc EXCEPT ![t] = "put_again"]
            /\ UNCHANGED <<lost, held>>
    /\ UNCHANGED <<maxsize, produced, delivered, stale>>
    /\ UNCHANGED <<camera_running, camera_process, camera_thread, proc,
                   capture_cmd>>
    /\ UNCHANGED <<framerVars, handlerVars, trackVars>>
    /\ UNCHANGED <<viewerVars, flowVars, replyVars, yuvVars>>
    /\ UNCHANGED extVars

\* camera_reader, lines 66-68: the second put(frame, block=False).
QueuePutAgain(t) ==
    /\ pc[t] = "put_again"
    /\ IF QueueFull(frame_queue)
       THEN /\ lost' = lost \cup {held[t]}
            /\ UNCHANGED frame_queue
       ELSE /\ frame_queue' = Put(frame_queue, held[t])
            /\ UNCHANGED lost
    /\ held' = [held EXCEPT ![t] = 0]
    /\ pc' = [pc EXCEPT ![t] = "loop"]
    /\ UNCHANGED <<maxsize, produced, delivered, stale>>
    /\ UNCHANGED <<camera_running, camera_process, camera_thread, proc,
                   capture_cmd>>
    /\ UNCHANGED <<framerVars, handlerVars, trackVars>>
    /\ UNCHANGED <<viewerVars, flowVars, replyVars, yuvVars>>
    /\ UNCHANGED extVars

\* stop_camera has returned and start_camera was not called since.
StopReturned ==
    /\ pc[MainThread] = "idle"
    /\ ~camera_running
    /\ camera_thread # None

\* The viewers of a session: every connection's sender pulls from the one
\* track it was given (webrtc_handler.py, line 167), by calling recv.
Viewers == PcIds

\* CameraVideoTrack.recv, lines 37-57, on the event-loop thread, called for
\* one of the viewers: get takes the oldest frame and recv returns it to
\* that caller.  (On an empty queue recv returns the black frame and the
\* queue is as it was.)
QueueRecv ==
    /\ pc[MainThread] = "idle"
    /\ frame_queue # <<>>
    /\ delivered' = Append(delivered, Head(frame_queue))
    /\ \E v \in Viewers :
        pulled' = [pulled EXCEPT ![v] = @ \cup {Head(frame_queue)}]
    /\ frame_queue' = AfterGet(frame_queue)
    /\ stale' = (stale \/ StopReturned)
    /\ UNCHANGED <<maxsize, held, produced, lost>>
    /\ UNCHANGED <<camera_running, camera_process, camera_thread, proc, pc,
                   capture_cmd>>
    /\ UNCHANGED <<framerVars, handlerVars, trackVars>>
    /\ UNCHANGED <<flowVars, replyVars, yuvVars>>
    /\ UNCHANGED extVars

QueueNext ==
    \/ QueueStart
    \/ QueueStop
    \/ StopJoin
    \/ StopDrain
    \/ QueueRecv
    \/ \E t \in ReaderIds : ReaderLoop(t)
    \/ \E t \in ReaderIds : QueueReaderDecodes(t)
    \/ \E t \in ReaderIds : QueueReaderIdles(t)
    \/ \E t \in ReaderIds : QueuePut(t)
    \/ \E t \in ReaderIds : QueueEvict(t)
    \/ \E t \in ReaderIds : QueuePutAgain(t)


(***************************************************************************)
(* CameraVideoTrack (webrtc_handler.py, lines 22-79): what recv returns    *)
(* and what rotate does, with the offers that make the track and write the *)
(* config, and the last disconnect that drops it.  An image is its shape   *)
(* and the rotation cv2.rotate gave it.  The reader's push is taken as one *)
(* step here.                                                              *)
(***************************************************************************)
\* rotate, line 78.
NextRotationNoWrap(r) == r + 90

NextRotation(r) == (r + 90) % 360

\* camera_reader, line 57: a decoded frame has the shape the capture was
\* launched with.
Captured(cmd) ==
    [kind |-> "frame", rows |-> cmd.height, cols |-> cmd.width,
     turned |-> 0, asked |-> 0]

\* recv, lines 40-47.
Turned(img, r) ==
    IF r = 0 THEN img
    ELSE IF r \in {90, 270}
         THEN [img EXCEPT !.rows = img.cols, !.cols = img.rows, !.turned = r]
    ELSE IF r = 180 THEN [img EXCEPT !.turned = r]
    ELSE img

\* recv, lines 61 and 70: np.zeros((height, width, 3)).
BlankTransposed(cfg) ==
    [kind |-> "blank", rows |-> cfg.width, cols |-> cfg.height,
     turned |-> 0, asked |-> 0]

Blank(cfg) ==
    [kind |-> "blank", rows |-> cfg.height, cols |-> cfg.width,
     turned |-> 0, asked |-> 0]

\* offer, lines 117-124 and 136-139: the first offer of a session makes a
\* track and starts the camera with the settings it asks for.
TrackFirstOffer ==
    /\ ~video_track
    /\ \E params \in Requests :
        /\ config' = EffectiveConfig(params, config)
        /\ capture_cmd' = CommandLine(config')
    /\ video_track' = TRUE
    /\ camera_running' = TRUE
    /\ rotation' = 0
    /\ rotations' = 0
    /\ UNCHANGED <<image, commanded, frame_queue, produced>>
    /\ UNCHANGED <<camera_process, camera_thread, proc, pc>>
    /\ UNCHANGED <<peer_connections, conn, hPending, hClosing, startCalls,
                   stopCalls, sessionCfg, startOutcome>>
    /\ UNCHANGED <<maxsize, held, lost, delivered, stale>>
    /\ UNCHANGED framerVars
    /\ UNCHANGED <<viewerVars, flowVars, replyVars, yuvVars>>
    /\ UNCHANGED extVars

\* offer, lines 117-124 and 140-148: a later offer writes its settings to
\* the config and reuses the track.
TrackLaterOffer ==
    /\ video_track
    /\ \E params \in Requests :
        config' = EffectiveConfig(params, config)
    /\ UNCHANGED <<rotation, rotations, image, commanded>>
    /\ UNCHANGED <<video_track, peer_connections, conn, hPending, hClosing,
                   startCalls, stopCalls, sessionCfg, startOutcome>>
    /\ UNCHANGED <<cameraVars, queueVars, framerVars>>
    /\ UNCHANGED <<viewerVars, flowVars, replyVars, yuvVars>>
    /\ UNCHANGED extVars

\* on_connectionstatechange, lines 156-159: stop_camera, which leaves the
\* queue empty, and video_track = None.
TrackLastPeerGone ==
    /\ video_track
    /\ camera_running' = FALSE
    /\ frame_queue' = <<>>
    /\ video_track' = FALSE
    /\ UNCHANGED <<camera_process, camera_thread, proc, pc, capture_cmd>>
    /\ UNCHANGED <<sessionVars, queueVars, trackVars, framerVars>>
    /\ UNCHANGED <<viewerVars, flowVars, replyVars, yuvVars>>
    /\ UNCHANGED extVars

\* camera_reader, lines 57-68: the reader thread pushes a decoded frame.
TrackPush ==
    /\ camera_running
    /\ produced < MaxFrames
    /\ produced' = produced + 1
    /\ frame_queue' = Push(frame_queue, produced + 1)
    /\ UNCHANGED <<maxsize, held, lost, delivered, stale>>
    /\ UNCHANGED <<camera_running, camera_process, camera_thread, proc, pc,
                   capture_cmd>>
    /\ UNCHANGED <<handlerVars, trackVars, framerVars>>
    /\ UNCHANGED <<viewerVars, flowVars, replyVars, yuvVars>>
    /\ UNCHANGED extVars

\* recv, lines 37-57: a frame was in the queue; it is rotated and returned.
RecvFrame ==
    /\ video_track
    /\ frame_queue # <<>>
    /\ frame_queue' = AfterGet(frame_queue)
    /\ image' = [Turned(Captured(capture_cmd), rotation)
                    EXCEPT !.asked = rotation]
    /\ UNCHANGED <<rotation, rotations, commanded>>
    /\ UNCHANGED <<camera_running, camera_process, camera_thread, proc, pc,
                   capture_cmd>>
    /\ UNCHANGED <<handlerVars, queueVars, framerVars>>
    /\ UNCHANGED <<viewerVars, flowVars, replyVars, yuvVars>>
    /\ UNCHANGED extVars

\* recv, lines 37-53 and 67-74: a frame was in the queue and processing it
\* raised.
RecvFails ==
    /\ video_track
    /\ frame_queue # <<>>
    /\ frame_queue' = AfterGet(frame_queue)
    /\ image' = [Blank(config) EXCEPT !.asked = rotation]
    /\ UNCHANGED <<rotation, rotations, commanded>>
    /\ UNCHANGED <<camera_running, camera_process, camera_thread, proc, pc,
                   capture_cmd>>
    /\ UNCHANGED <<handlerVars, queueVars, framerVars>>
    /\ UNCHANGED <<viewerVars, flowVars, replyVars, yuvVars>>
    /\ UNCHANGED extVars

\* recv, lines 37 and 59-65: the queue stayed empty for the 50 ms.
RecvTimeout ==
    /\ video_track
    /\ frame_queue = <<>>
    /\ image' = [Blank(config) EXCEPT !.asked = rotation]
    /\ UNCHANGED <<rotation, rotations, commanded>>
    /\ UNCHANGED <<cameraVars, handlerVars, queueVars, framerVars>>
    /\ UNCHANGED <<viewerVars, flowVars, replyVars, yuvVars>>
    /\ UNCHANGED extVars

\* rotate_camera (web_server.py, lines 30-35) and rotate, line 78.
TrackRotate ==
    /\ video_track
    /\ rotations < MaxRotations
    /\ rotation' = NextRotation(rotation)
    /\ rotations' = rotations + 1
    /\ commanded' = rotation'
    /\ UNCHANGED image
    /\ UNCHANGED <<cameraVars, handlerVars, queueVars, framerVars>>
    /\ UNCHANGED <<viewerVars, flowVars, replyVars, yuvVars>>
    /\ UNCHANGED extVars

TrackNext ==
    \/ TrackFirstOffer
    \/ TrackLaterOffer
    \/ TrackLastPeerGone
    \/ TrackPush
    \/ RecvFrame
    \/ RecvFails
    \/ RecvTimeout
    \/ TrackRotate

(***************************************************************************)
(* src/webrtc_server.py: CameraVideoTrack with fixed-size framing.  The    *)
(* track starts rpicam-vid itself, with raw YUV420p output, and recv cuts  *)
(* the byte stream into frames of frame_size bytes (_read_yuv_frame).  A   *)
(* byte is the number of its place in the stream.                          *)
(***************************************************************************)
Dims == {<<2, 1>>, <<2, 2>>}

\* CameraVideoTrack.__init__, line 364.
FrameSize(dims) == (dims[1] * dims[2] * 3) \div 2

\* Bytes i+1 .. j of the stream.
Stream(i, j) == [k \in 1..(j - i) |-> i + k]

\* _read_yuv_frame, line 445.
FrameData(buf, size) == SubSeq(buf, 1, size)

\* Line 446 with the slice begun one byte early.
YuvRestOverlaps(buf, size) == SubSeq(buf, size, Len(buf))

\* _read_yuv_frame, line 446.
YuvRest(buf, size) == SubSeq(buf, size + 1, Len(buf))

YuvInit ==
    /\ FramerInit0 /\ CameraInit0 /\ HandlerInit0 /\ QueueInit0 /\ TrackInit0
    /\ TermInit0 /\ BackoffInit0 /\ NalInit0 /\ H264Init0 /\ LimitInit0
    /\ MjpegInit0 /\ ParamsInit0
    /\ yuv_dims \in Dims
    /\ rpicam_proc = "running"
    /\ yuv_spawned = 1
    /\ yuv_out = 0
    /\ yuv_taken = 0
    /\ yuv_buffer = <<>>
    /\ yuv_frames = <<>>
    /\ yuv_pc = "idle"
    /\ yuv_result = "none"

\* rpicam-vid writes the next byte of its output.
YuvWrite ==
    /\ rpicam_proc = "running"
    /\ yuv_out < MaxBytes
    /\ yuv_out' = yuv_out + 1
    /\ UNCHANGED <<yuv_dims, rpicam_proc, yuv_spawned, yuv_taken, yuv_buffer,
                   yuv_frames, yuv_pc, yuv_result>>
    /\ UNCHANGED <<framerVars, cameraVars, handlerVars, queueVars, trackVars>>
    /\ UNCHANGED <<viewerVars, flowVars, replyVars>>
    /\ UNCHANGED extVars

\* rpicam-vid ends (camera error, crash, killed): its output is closed.
YuvExit ==
    /\ rpicam_proc = "running"
    /\ rpicam_proc' = "exited"
    /\ UNCHANGED <<yuv_dims, yuv_spawned, yuv_out, yuv_taken, yuv_buffer,
                   yuv_frames, yuv_pc, yuv_result>>
    /\ UNCHANGED <<framerVars, cameraVars, handlerVars, queueVars, trackVars>>
    /\ UNCHANGED <<viewerVars, flowVars, replyVars>>
    /\ UNCHANGED extVars

\* recv, lines 403-411, and _read_yuv_frame, lines 433-434: with the process
\* gone RuntimeError is raised; recv logs it (lines 422-423) and returns
\* None (line 426).
YuvRecv ==
    /\ yuv_pc = "idle"
    /\ IF rpicam_proc # "running"
       THEN /\ yuv_result' = "None"
            /\ UNCHANGED yuv_pc
       ELSE /\ yuv_pc' = "reading"
            /\ yuv_result' = "pending"
    /\ UNCHANGED <<yuv_dims, rpicam_proc, yuv_spawned, yuv_out, yuv_taken,
                   yuv_buffer, yuv_frames>>
    /\ UNCHANGED <<framerVars, cameraVars, handlerVars, queueVars, trackVars>>
    /\ UNCHANGED <<viewerVars, flowVars, replyVars>>
    /\ UNCHANGED extVars

\* _read_yuv_frame, lines 439-443: stdout.read(4096) returns a chunk of the
\* bytes written and not yet read, of any size up to the largest.
YuvReadChunk ==
    /\ yuv_pc = "reading"
    /\ Len(yuv_buffer) < FrameSize(yuv_dims)
    /\ \E n \in 1..MaxChunk :
        /\ yuv_taken + n <= yuv_out
        /\ yuv_buffer' = yuv_buffer \o Stream(yuv_taken, yuv_taken + n)
        /\ yuv_taken' = yuv_taken + n
    /\ UNCHANGED <<yuv_dims, rpicam_proc, yuv_spawned, yuv_out, yuv_frames,
                   yuv_pc, yuv_result>>
    /\ UNCHANGED <<framerVars, cameraVars, handlerVars, queueVars, trackVars>>
    /\ UNCHANGED <<viewerVars, flowVars, replyVars>>
    /\ UNCHANGED extVars

\* _read_yuv_frame, lines 440-442: the read returns b'' (the process has
\* ended and all it wrote was read), EOFError is raised, _buffer is left as
\* it is; recv logs the error and returns None.
YuvEndOfStream ==
    /\ yuv_pc = "reading"
    /\ Len(yuv_buffer) < FrameSize(yuv_dims)
    /\ yuv_taken = yuv_out
    /\ rpicam_proc = "exited"
    /\ yuv_pc' = "idle"
    /\ yuv_result' = "None"
    /\ UNCHANGED <<yuv_dims, rpicam_proc, yuv_spawned, yuv_out, yuv_taken,
                   yuv_buffer, yuv_frames>>
    /\ UNCHANGED <<framerVars, cameraVars, handlerVars, queueVars, trackVars>>
    /\ UNCHANGED <<viewerVars, flowVars, replyVars>>
    /\ UNCHANGED extVars

\* _read_yuv_frame, lines 445-447, and recv, lines 413-421: the frame is cut
\* off the buffer and returned.
YuvReturnFrame ==
    /\ yuv_pc = "reading"
    /\ Len(yuv_buffer) >= FrameSize(yuv_dims)
    /\ yuv_frames' = Append(yuv_frames,
                            FrameData(yuv_buffer, FrameSize(yuv_dims)))
    /\ yuv_buffer' = YuvRest(yuv_buffer, FrameSize(yuv_dims))
    /\ yuv_pc' = "idle"
    /\ yuv_result' = "frame"
    /\ UNCHANGED <<yuv_dims, rpicam_proc, yuv_spawned, yuv_out, yuv_taken>>
    /\ UNCHANGED <<framerVars, cameraVars, handlerVars, queueVars, trackVars>>
    /\ UNCHANGED <<viewerVars, flowVars, replyVars>>
    /\ UNCHANGED extVars

\* One step of a recv call.
YuvRecvStep ==
    \/ YuvRecv
    \/ YuvReadChunk
    \/ YuvEndOfStream
    \/ YuvReturnFrame

YuvNext ==
    \/ YuvWrite
    \/ YuvExit
    \/ YuvRecvStep

(***************************************************************************)
(* The reader's read, call by call.  stdout.read(2048) (camera.py, line    *)
(* 32) is a blocking call on the pipe of the process camera_process refers *)
(* to when the call is made: it returns when that process has written      *)
(* something or has ended, and not before.  What a process writes is its   *)
(* flow: "frames" (complete units), "scraps" (bytes in which no unit       *)
(* becomes complete) or "nothing".                                         *)
(***************************************************************************)
Stalls == {"scraps", "nothing"}

Stalled == {p \in ProcIds : flow[p] \in Stalls}

\* The capture subprocess stays alive and stops producing frames.
ProcessStalls(p) ==
    /\ Cardinality(Stalled) < MaxStalls
    /\ proc[p] = "alive"
    /\ flow[p] = "frames"
    /\ \E kind \in Stalls : flow' = [flow EXCEPT ![p] = kind]
    /\ UNCHANGED reading
    /\ UNCHANGED <<framerVars, cameraVars, handlerVars, queueVars, trackVars>>
    /\ UNCHANGED <<viewerVars, replyVars, yuvVars>>
    /\ UNCHANGED extVars

\* camera_reader, line 32: the call is made.  With camera_process None the
\* attribute access raises, and the handler at lines 72-74 sends the reader
\* round its loop.
ReadBegins(t) ==
    /\ pc[t] = "read"
    /\ IF camera_process = None
       THEN /\ pc' = [pc EXCEPT ![t] = "loop"]
            /\ UNCHANGED reading
       ELSE /\ pc' = [pc EXCEPT ![t] = "blocked"]
            /\ reading' = [reading EXCEPT ![t] = camera_process]
    /\ UNCHANGED flow
    /\ UNCHANGED <<camera_running, camera_process, camera_thread, frame_queue,
                   proc, capture_cmd>>
    /\ UNCHANGED <<framerVars, handlerVars, queueVars, trackVars>>
    /\ UNCHANGED <<viewerVars, replyVars, yuvVars>>
    /\ UNCHANGED extVars

\* camera_reader, lines 32-68: the read returns data that completes a frame;
\* the frame is decoded and pushed.
ReadFrame(t) ==
    /\ pc[t] = "blocked"
    /\ proc[reading[t]] = "alive"
    /\ flow[reading[t]] = "frames"
    /\ frame_queue' = Push(frame_queue, reading[t])
    /\ pc' = [pc EXCEPT ![t] = "loop"]
    /\ reading' = [reading EXCEPT ![t] = None]
    /\ UNCHANGED flow
    /\ UNCHANGED <<camera_running, camera_process, camera_thread, proc,
                   capture_cmd>>
    /\ UNCHANGED <<framerVars, handlerVars, queueVars, trackVars>>
    /\ UNCHANGED <<viewerVars, replyVars, yuvVars>>
    /\ UNCHANGED extVars

\* camera_reader, lines 32-48: the read returns data that completes no frame.
ReadScraps(t) ==
    /\ pc[t] = "blocked"
    /\ proc[reading[t]] = "alive"
    /\ flow[reading[t]] = "scraps"
    /\ pc' = [pc EXCEPT ![t] = "loop"]
    /\ reading' = [reading EXCEPT ![t] = None]
    /\ UNCHANGED flow
    /\ UNCHANGED <<camera_running, camera_process, camera_thread, frame_queue,
                   proc, capture_cmd>>
    /\ UNCHANGED <<framerVars, handlerVars, queueVars, trackVars>>
    /\ UNCHANGED <<viewerVars, replyVars, yuvVars>>
    /\ UNCHANGED extVars

\* camera_reader, lines 32-34: the process has ended, the read returns b''.
ReadEndOfFile(t) ==
    /\ pc[t] = "blocked"
    /\ proc[reading[t]] = "dead"
    /\ pc' = [pc EXCEPT ![t] = "loop"]
    /\ reading' = [reading EXCEPT ![t] = None]
    /\ UNCHANGED flow
    /\ UNCHANGED <<camera_running, camera_process, camera_thread, frame_queue,
                   proc, capture_cmd>>
    /\ UNCHANGED <<framerVars, handlerVars, queueVars, trackVars>>
    /\ UNCHANGED <<viewerVars, replyVars, yuvVars>>
    /\ UNCHANGED extVars

\* One step of reader thread t, its read taken call by call.
ReaderRuns(t) ==
    \/ ReaderLoop(t)
    \/ ReaderCheck(t)
    \/ ReadBegins(t)
    \/ ReadFrame(t)
    \/ ReadScraps(t)
    \/ ReadEndOfFile(t)
    \/ SetupStep(t)

\* One step of stop_camera after its first line.
StopStep ==
    \/ StopTerminate
    \/ StopClear
    \/ StopJoin
    \/ StopDrain

ReaderNext ==
    \/ StartCamera
    \/ SetupStep(MainThread)
    \/ StartThread
    \/ StopCamera
    \/ StopStep
    \/ \E t \in ReaderIds : ReaderRuns(t)
    \/ \E p \in ProcIds : ProcessStalls(p)
    \/ \E p \in ProcIds : ProcessExits(p)

\* The first session of a Camera: one start_camera, its reader thread, and
\* the stop_camera that ends it.
FirstStart == camera_thread = None /\ StartCamera

SessionNext ==
    \/ FirstStart
    \/ SetupStep(MainThread)
    \/ StartThread
    \/ StopCamera
    \/ StopStep
    \/ \E t \in ReaderIds : ReaderRuns(t)
    \/ \E p \in ProcIds : ProcessStalls(p)
    \/ \E p \in ProcIds : ProcessExits(p)

(***************************************************************************)
(* Stopping a subprocess, call by call (camera.py, lines 78-84 and         *)
(* 148-156).  Each of terminate(), wait(timeout=1) and kill() is called on *)
(* what self.camera_process refers to when that call is made; another      *)
(* thread may assign camera_process between two of the calls.  A process   *)
(* that gets SIGTERM exits in time for the wait, or does not.              *)
(***************************************************************************)
OtherVarsOfTerm ==
    <<framerVars, handlerVars, capture_cmd, queueVars, trackVars, viewerVars,
      flowVars, replyVars, yuvVars, backoffVars, nalVars, h264Vars, lateVars>>

\* Popen.terminate() on process p by thread t.
Terminate(t, p) ==
    /\ sigterm' = sigterm \cup {p}
    /\ termed' = [termed EXCEPT ![t] = p]
    /\ \E heeds \in BOOLEAN :
        proc' = IF heeds THEN [proc EXCEPT ![p] = "dead"] ELSE proc

\* Popen.kill() on process p by thread t: SIGKILL ends the process.
Kill(t, p) ==
    /\ proc' = [proc EXCEPT ![p] = "dead"]
    /\ killed' = killed \cup {[target |-> p, asked |-> termed[t],
                               timed_out |-> timed_out[t]]}

\* setup_camera_process, line 78.
TermSetupEnter(t) ==
    /\ pc[t] = "setup"
    /\ pc' = [pc EXCEPT ![t] = IF camera_process # None
                               THEN "setup_term" ELSE "popen"]
    /\ termed' = [termed EXCEPT ![t] = None]
    /\ timed_out' = [timed_out EXCEPT ![t] = None]
    /\ UNCHANGED <<camera_running, camera_process, camera_thread, frame_queue,
                   proc, sigterm, killed>>
    /\ UNCHANGED OtherVarsOfTerm

\* setup_camera_process, line 80; with camera_process None by now the call
\* raises AttributeError and the bare except of line 82 takes over.
TermSetupTerminate(t) ==
    /\ pc[t] = "setup_term"
    /\ IF camera_process = None
       THEN /\ pc' = [pc EXCEPT ![t] = "setup_kill"]
            /\ UNCHANGED <<proc, sigterm, termed>>
       ELSE /\ Terminate(t, camera_process)
            /\ pc' = [pc EXCEPT ![t] = "setup_wait"]
    /\ UNCHANGED <<camera_running, camera_process, camera_thread, frame_queue,
                   timed_out, killed>>
    /\ UNCHANGED OtherVarsOfTerm

\* setup_camera_process, lines 81-82: the wait returns when the process has
\* ended and raises TimeoutExpired when it has not.
TermSetupWait(t) ==
    /\ pc[t] = "setup_wait"
    /\ IF camera_process = None
       THEN /\ pc' = [pc EXCEPT ![t] = "setup_kill"]
            /\ UNCHANGED timed_out
       ELSE IF proc[camera_process] = "alive"
       THEN /\ pc' = [pc EXCEPT ![t] = "setup_kill"]
            /\ timed_out' = [timed_out EXCEPT ![t] = camera_process]
       ELSE /\ pc' = [pc EXCEPT ![t] = "clear"]
            /\ UNCHANGED timed_out
    /\ UNCHANGED <<camera_running, camera_process, camera_thread, frame_queue,
                   proc, sigterm, termed, killed>>
    /\ UNCHANGED OtherVarsOfTerm

\* setup_camera_process, line 83, inside the except: with camera_process
\* None the AttributeError leaves setup_camera_process.
TermSetupKill(t) ==
    /\ pc[t] = "setup_kill"
    /\ IF camera_process = None
       THEN /\ pc' = [pc EXCEPT ![t] = AfterSetupRaised(t)]
            /\ UNCHANGED <<proc, killed>>
       ELSE /\ Kill(t, camera_process)
            /\ pc' = [pc EXCEPT ![t] = "clear"]
    /\ UNCHANGED <<camera_running, camera_process, camera_thread, frame_queue,
                   sigterm, termed, timed_out>>
    /\ UNCHANGED OtherVarsOfTerm

\* stop_camera, line 148.
TermStopEnter ==
    /\ pc[MainThread] = "stop"
    /\ pc' = [pc EXCEPT ![MainThread] = IF camera_process # None
                                        THEN "stop_term" ELSE "join"]
    /\ termed' = [termed EXCEPT ![MainThread] = None]
    /\ timed_out' = [timed_out EXCEPT ![MainThread] = None]
    /\ UNCHANGED <<camera_running, camera_process, camera_thread, frame_queue,
                   proc, sigterm, killed>>
    /\ UNCHANGED OtherVarsOfTerm

\* stop_camera, line 150; an AttributeError is passed over (lines 154-155).
TermStopTerminate ==
    /\ pc[MainThread] = "stop_term"
    /\ IF camera_process = None
       THEN /\ pc' = [pc EXCEPT ![MainThread] = "stop_clear"]
            /\ UNCHANGED <<proc, sigterm, termed>>
       ELSE /\ Terminate(MainThread, camera_process)
            /\ pc' = [pc EXCEPT ![MainThread] = "stop_wait"]
    /\ UNCHANGED <<camera_running, camera_process, camera_thread, frame_queue,
                   timed_out, killed>>
    /\ UNCHANGED OtherVarsOfTerm

\* stop_camera, lines 151-155.
TermStopWait ==
    /\ pc[MainThread] = "stop_wait"
    /\ IF camera_process # None /\ proc[camera_process] = "alive"
       THEN /\ pc' = [pc EXCEPT ![MainThread] = "stop_kill"]
            /\ timed_out' = [timed_out EXCEPT ![MainThread] = camera_process]
       ELSE /\ pc' = [pc EXCEPT ![MainThread] = "stop_clear"]
            /\ UNCHANGED timed_out
    /\ UNCHANGED <<camera_running, camera_process, camera_thread, frame_queue,
                   proc, sigterm, termed, killed>>
    /\ UNCHANGED OtherVarsOfTerm

\* stop_camera, line 153, inside the except: with camera_process None the
\* AttributeError leaves stop_camera, and lines 156-168 are not run.
TermStopKill ==
    /\ pc[MainThread] = "stop_kill"
    /\ IF camera_process = None
       THEN /\ pc' = [pc EXCEPT ![MainThread] = "idle"]
            /\ UNCHANGED <<proc, killed>>
       ELSE /\ Kill(MainThread, camera_process)
            /\ pc' = [pc EXCEPT ![MainThread] = "stop_clear"]
    /\ UNCHANGED <<camera_running, camera_process, camera_thread, frame_queue,
                   sigterm, termed, timed_out>>
    /\ UNCHANGED OtherVarsOfTerm

TermSetupStep(t) ==
    \/ TermSetupEnter(t)
    \/ TermSetupTerminate(t)
    \/ TermSetupWait(t)
    \/ TermSetupKill(t)
    \/ SetupClear(t)
    \/ SetupPopen(t)
    \/ SetupPopenNotFound(t)
    \/ SetupVerify(t)

TermStopStep ==
    \/ TermStopEnter
    \/ TermStopTerminate
    \/ TermStopWait
    \/ TermStopKill
    \/ StopClear
    \/ StopJoin
    \/ StopDrain

TermReaderStep(t) ==
    \/ ReaderLoop(t)
    \/ ReaderCheck(t)
    \/ ReaderReadFrame(t)
    \/ ReaderReadNothing(t)
    \/ TermSetupStep(t)

TermNext ==
    \/ FirstStart
    \/ StartThread
    \/ StopCamera
    \/ TermStopStep
    \/ TermSetupStep(MainThread)
    \/ \E t \in ReaderIds : TermReaderStep(t)
    \/ \E p \in ProcIds : ProcessExits(p)

(***************************************************************************)
(* The reader's restarts in time (camera.py, lines 23-29, 72-74, 113-134). *)
(* The clock of a reader counts the milliseconds it has slept since its    *)
(* latest Popen call; the statements between the sleeps take no time, so   *)
(* the count is the least time that can have passed.  Popen itself may     *)
(* raise (the program is gone, or the system has no process or descriptor  *)
(* left), which setup_camera_process logs and passes on (lines 129-134).   *)
(***************************************************************************)
OtherVarsOfBackoff ==
    <<framerVars, handlerVars, queueVars, trackVars, viewerVars, flowVars,
      replyVars, yuvVars, termVars, nalVars, h264Vars, lateVars>>

Sleep(t, ms) ==
    elapsed' = [elapsed EXCEPT ![t] = IF @ + ms > MaxElapsed
                                      THEN MaxElapsed ELSE @ + ms]

\* A Popen call by reader t, whatever its outcome: the time since the
\* reader's call before is noted when that one had failed.
StartAttempt(t) ==
    /\ gap' = [gap EXCEPT ![t] = IF failed[t] THEN elapsed[t] ELSE @]
    /\ elapsed' = [elapsed EXCEPT ![t] = 0]

\* setup_camera_process, lines 113-118, in the reader.
BackoffPopen(t) ==
    /\ pc[t] = "popen"
    /\ Unborn # {}
    /\ \E outcome \in {"alive", "dead"} :
        proc' = [proc EXCEPT ![FreshProc] = outcome]
    /\ camera_process' = FreshProc
    /\ capture_cmd' = CommandLine(config)
    /\ StartAttempt(t)
    /\ failed' = [failed EXCEPT ![t] = FALSE]
    /\ pc' = [pc EXCEPT ![t] = "verify"]
    /\ UNCHANGED <<camera_running, camera_thread, frame_queue>>
    /\ UNCHANGED OtherVarsOfBackoff

\* setup_camera_process, lines 113 and 129-134: Popen raises, and the
\* exception leaves setup_camera_process for line 72 of the reader.
BackoffPopenRaises(t) ==
    /\ pc[t] = "popen"
    /\ StartAttempt(t)
    /\ failed' = [failed EXCEPT ![t] = TRUE]
    /\ pc' = [pc EXCEPT ![t] = "except"]
    /\ UNCHANGED <<camera_running, camera_process, camera_thread, frame_queue,
                   proc, capture_cmd>>
    /\ UNCHANGED OtherVarsOfBackoff

\* setup_camera_process, lines 121-127 and 132-134: the startup check after
\* time.sleep(0.1).
BackoffVerify(t) ==
    /\ pc[t] = "verify"
    /\ Sleep(t, StartupCheckMs)
    /\ IF camera_process # None /\ proc[camera_process] = "alive"
       THEN /\ pc' = [pc EXCEPT ![t] = "backoff"]
            /\ UNCHANGED failed
       ELSE /\ pc' = [pc EXCEPT ![t] = "except"]
            /\ failed' = [failed EXCEPT ![t] = TRUE]
    /\ UNCHANGED <<camera_running, camera_process, camera_thread, frame_queue,
                   proc, capture_cmd, gap>>
    /\ UNCHANGED OtherVarsOfBackoff

\* The wait the reader makes after an exception: time.sleep(0.001).
ErrorWaitAsBackoff == RestartBackoffMs

ErrorWait == ErrorSleepMs

\* camera_reader, lines 27-29: setup_camera_process has returned.
BackoffAfterRestart(t) ==
    /\ pc[t] = "backoff"
    /\ Sleep(t, RestartBackoffMs)
    /\ pc' = [pc EXCEPT ![t] = "loop"]
    /\ UNCHANGED <<camera_running, camera_process, camera_thread, frame_queue,
                   proc, capture_cmd, gap, failed>>
    /\ UNCHANGED OtherVarsOfBackoff

\* camera_reader, lines 72-74: setup_camera_process has raised.
BackoffAfterError(t) ==
    /\ pc[t] = "except"
    /\ Sleep(t, ErrorWait)
    /\ pc' = [pc EXCEPT ![t] = "loop"]
    /\ UNCHANGED <<camera_running, camera_process, camera_thread, frame_queue,
                   proc, capture_cmd, gap, failed>>
    /\ UNCHANGED OtherVarsOfBackoff

BackoffReaderStep(t) ==
    \/ ReaderLoop(t)
    \/ ReaderCheck(t)
    \/ ReaderReadFrame(t)
    \/ ReaderReadNothing(t)
    \/ SetupTerminate(t)
    \/ SetupClear(t)
    \/ BackoffPopen(t)
    \/ BackoffPopenRaises(t)
    \/ BackoffVerify(t)
    \/ BackoffAfterRestart(t)
    \/ BackoffAfterError(t)

\* A session that is started and not stopped.
BackoffNext ==
    \/ FirstStart
    \/ SetupStep(MainThread)
    \/ StartThread
    \/ TrackRecv
    \/ \E t \in ReaderIds : BackoffReaderStep(t)
    \/ \E p \in ProcIds : ProcessExits(p)

(***************************************************************************)
(* src/multicore-gpu.py: read_h264_nal_unit, called by camera_reader once  *)
(* per pass (line 109) on the stdout of the encoder.  The encoder writes   *)
(* units, each the start code followed by payload bytes that are neither   *)
(* 00 nor 01; the payload bytes of the i-th unit all have the value i + 1, *)
(* which tells the units apart.  A read returns some of the bytes the pipe *)
(* holds, at most MaxChunk of them, and nothing once the encoder has       *)
(* closed its end and the pipe is empty.                                   *)
(***************************************************************************)
start_code == <<0, 0, 0, 1>>

NalUnit(i, n) == start_code \o [k \in 1..n |-> i + 1]

OtherVarsOfNal ==
    <<framerVars, cameraVars, handlerVars, queueVars, trackVars, viewerVars,
      flowVars, replyVars, yuvVars, termVars, backoffVars, h264Vars, lateVars>>

\* rpicam-vid writes its next unit.
NalWrite ==
    /\ ~nal_closed
    /\ Len(nal_written) < MaxNals
    /\ \E n \in 1..MaxPayload :
        LET u == NalUnit(Len(nal_written) + 1, n)
        IN  /\ nal_written' = Append(nal_written, u)
            /\ nal_pipe' = nal_pipe \o u
    /\ UNCHANGED <<nal_closed, nal_buffer, nal_pc, nal_units>>
    /\ UNCHANGED OtherVarsOfNal

\* rpicam-vid ends: its end of the pipe is closed.
NalClose ==
    /\ ~nal_closed
    /\ nal_closed' = TRUE
    /\ UNCHANGED <<nal_pipe, nal_written, nal_buffer, nal_pc, nal_units>>
    /\ UNCHANGED OtherVarsOfNal

\* stream.read(4096) can return: there is data, or the end of the file.
NalReadable == nal_pipe # <<>> \/ nal_closed

\* read_h264_nal_unit, line 194: buffer = b''.
BufferAtCall == <<>>

\* camera_reader, line 109, and read_h264_nal_unit, lines 194-195.
NalCall ==
    /\ nal_pc = "idle"
    /\ nal_buffer' = BufferAtCall
    /\ nal_pc' = "first"
    /\ UNCHANGED <<nal_pipe, nal_written, nal_closed, nal_units>>
    /\ UNCHANGED OtherVarsOfNal

\* read_h264_nal_unit, lines 198-206: one pass of "find first start code".
NalFindFirst ==
    /\ nal_pc = "first"
    /\ NalReadable
    /\ IF nal_pipe = <<>>
       THEN /\ nal_pc' = "ended"
            /\ UNCHANGED <<nal_pipe, nal_buffer>>
       ELSE \E n \in 1..MaxChunk :
            LET data == Slice(nal_pipe, 0, n)
                buf == nal_buffer \o data
                start_idx == Find(buf, start_code, 0)
            IN  /\ n <= Len(nal_pipe)
                /\ nal_pipe' = Slice(nal_pipe, n, Len(nal_pipe))
                /\ IF start_idx # -1
                   THEN /\ nal_buffer' = Slice(buf, start_idx + 4, Len(buf))
                        /\ nal_pc' = "next"
                   ELSE /\ nal_buffer' = buf
                        /\ nal_pc' = "first"
    /\ UNCHANGED <<nal_written, nal_closed, nal_units>>
    /\ UNCHANGED OtherVarsOfNal

\* read_h264_nal_unit, lines 209-214: the next start code is in the buffer.
NalReturnUnit ==
    /\ nal_pc = "next"
    /\ LET next_start == Find(nal_buffer, start_code, 0)
       IN  /\ next_start # -1
           /\ nal_units' = Append(nal_units,
                                  start_code \o Slice(nal_buffer, 0, next_start))
           /\ nal_buffer' = Slice(nal_buffer, next_start + 4, Len(nal_buffer))
    /\ nal_pc' = "idle"
    /\ UNCHANGED <<nal_pipe, nal_written, nal_closed>>
    /\ UNCHANGED OtherVarsOfNal

\* read_h264_nal_unit, lines 210 and 216-222: no start code in the buffer.
NalReadMore ==
    /\ nal_pc = "next"
    /\ Find(nal_buffer, start_code, 0) = -1
    /\ NalReadable
    /\ IF nal_pipe = <<>>
       THEN /\ IF nal_buffer # <<>>
               THEN /\ nal_units' = Append(nal_units, start_code \o nal_buffer)
                    /\ nal_pc' = "idle"
               ELSE /\ nal_pc' = "ended"
                    /\ UNCHANGED nal_units
            /\ UNCHANGED <<nal_pipe, nal_buffer>>
       ELSE /\ \E n \in 1..MaxChunk :
                /\ n <= Len(nal_pipe)
                /\ nal_buffer' = nal_buffer \o Slice(nal_pipe, 0, n)
                /\ nal_pipe' = Slice(nal_pipe, n, Len(nal_pipe))
            /\ UNCHANGED <<nal_pc, nal_units>>
    /\ UNCHANGED <<nal_written, nal_closed>>
    /\ UNCHANGED OtherVarsOfNal

NalNext ==
    \/ NalWrite
    \/ NalClose
    \/ NalCall
    \/ NalFindFirst
    \/ NalReturnUnit
    \/ NalReadMore

(***************************************************************************)
(* src/h264codec.py: camera_reader, whose buffer lives as long as the      *)
(* loop.  The encoder and its units are those of the view above; the units *)
(* handed to the queue push (lines 95-103) are recorded in order.          *)
(***************************************************************************)
OtherVarsOfH264 ==
    <<framerVars, cameraVars, handlerVars, queueVars, trackVars, viewerVars,
      flowVars, replyVars, yuvVars, termVars, backoffVars, nalVars, lateVars>>

\* camera_reader, lines 77-93: the extraction loop on the buffer.
RECURSIVE ExtractNals(_, _)
ExtractNals(buf, units) ==
    LET start_idx == Find(buf, start_code, 0)
        next_start == Find(buf, start_code, start_idx + 4)
    IN  IF start_idx = -1 THEN [buffer |-> buf, units |-> units]
        ELSE IF next_start = -1
        THEN [buffer |-> IF Len(buf) - start_idx > TrimAbove
                         THEN Slice(buf, start_idx, Len(buf)) ELSE buf,
              units |-> units]
        ELSE ExtractNals(Slice(buf, next_start, Len(buf)),
                         Append(units, Slice(buf, start_idx, next_start)))

\* rpicam-vid writes its next unit.
H264Write ==
    /\ ~h264_closed
    /\ Len(h264_written) < MaxNals
    /\ \E n \in 1..MaxPayload :
        LET u == NalUnit(Len(h264_written) + 1, n)
        IN  /\ h264_written' = Append(h264_written, u)
            /\ h264_pipe' = h264_pipe \o u
    /\ UNCHANGED <<h264_closed, h264_buffer, h264_pushed, h264_ended>>
    /\ UNCHANGED OtherVarsOfH264

\* rpicam-vid ends.
H264Close ==
    /\ ~h264_closed
    /\ h264_closed' = TRUE
    /\ UNCHANGED <<h264_pipe, h264_written, h264_buffer, h264_pushed,
                   h264_ended>>
    /\ UNCHANGED OtherVarsOfH264

\* camera_reader, lines 70-103: one read of the pipe, the extraction loop
\* and the push of every unit it cut out.
H264Read ==
    /\ ~h264_ended
    /\ h264_pipe # <<>>
    /\ \E n \in 1..MaxChunk :
        LET data == Slice(h264_pipe, 0, n)
            r == ExtractNals(h264_buffer \o data, <<>>)
        IN  /\ n <= Len(h264_pipe)
            /\ h264_pipe' = Slice(h264_pipe, n, Len(h264_pipe))
            /\ h264_buffer' = r.buffer
            /\ h264_pushed' = h264_pushed \o r.units
    /\ UNCHANGED <<h264_written, h264_closed, h264_ended>>
    /\ UNCHANGED OtherVarsOfH264

\* What the reader does with its buffer when the stream has ended, were the
\* rest pushed as a unit.
PushedAtEnd(buf) == IF buf = <<>> THEN <<>> ELSE <<buf>>

\* camera_reader, lines 63-67 and 70-72: the units pushed when the stream
\* has ended: none.  The read returns b'', the pass is given up, and the
\* next pass finds the process ended and restarts it with an empty buffer.
AtEndOfStream(buf) == <<>>

\* The reader finds the encoder ended, here after it has read all the
\* encoder wrote.
H264EndOfStream ==
    /\ ~h264_ended
    /\ h264_closed
    /\ h264_pipe = <<>>
    /\ h264_pushed' = h264_pushed \o AtEndOfStream(h264_buffer)
    /\ h264_buffer' = <<>>
    /\ h264_ended' = TRUE
    /\ UNCHANGED <<h264_pipe, h264_written, h264_closed>>
    /\ UNCHANGED OtherVarsOfH264

H264Next ==
    \/ H264Write
    \/ H264Close
    \/ H264Read
    \/ H264EndOfStream

(***************************************************************************)
(* offer, lines 95-124 of webrtc_handler.py (and lines 316-345 of          *)
(* enhanced-server.py, which are the same statements on the global         *)
(* CONFIG): the parameters of one offer after another are processed, each  *)
(* on the config the offer before it left.  The bodies are those of        *)
(* Requests and bodies whose numbers are not whole or that name tuning     *)
(* values.                                                                 *)
(***************************************************************************)
Bodies ==
    Requests \cup
    { [latencyMode |-> "custom", fps |-> 2997],
      [latencyMode |-> "custom", height |-> Number(720), quality |-> 8550,
       sharpness |-> 150],
      [latencyMode |-> "ultra", width |-> Number(1920), brightness |-> 25],
      [latencyMode |-> "low", fps |-> Number(15), contrast |-> 120,
       saturation |-> 80] }

\* offer, lines 95-124: the parameters are read and the config is updated.
ParamsOffer ==
    /\ \E params \in Bodies :
        /\ request_json' = params
        /\ config' = EffectiveConfig(params, config)
    /\ before' = config
    /\ parsed' = TRUE
    /\ UNCHANGED <<video_track, peer_connections, conn, hPending, hClosing,
                   startCalls, stopCalls, sessionCfg, startOutcome>>
    /\ UNCHANGED <<framerVars, cameraVars, queueVars, trackVars, viewerVars,
                   flowVars, replyVars, yuvVars>>
    /\ UNCHANGED <<termVars, backoffVars, nalVars, h264Vars, limitVars,
                   mjpegVars>>

ParamsNext == ParamsOffer

(***************************************************************************)
(* src/enhanced_server.py: WebRTCServer.offer, lines 853-885, on the       *)
(* asyncio event loop.  A handler runs from one await to the next without  *)
(* interruption; at an await the loop may run another handler.  An offer   *)
(* is named by its number, and so is the RTCPeerConnection made for it.    *)
(***************************************************************************)
OtherVarsOfLimit ==
    <<framerVars, cameraVars, handlerVars, queueVars, trackVars, viewerVars,
      flowVars, replyVars, yuvVars, termVars, backoffVars, nalVars, h264Vars,
      paramsVars, mjpegVars>>

\* The test of line 857, were it made on the connections held and the
\* offers admitted that have yet to register theirs.
AtLimitCountingAdmitted ==
    Cardinality(limit_peers \cup {o \in LimitOffers : limit_pc[o] = "reading"})
        >= max_connections

\* offer, line 857: len(self.peer_connections) >= max_connections.
AtLimit == Cardinality(limit_peers) >= max_connections

\* offer, lines 855-862: the limit check; the offer is answered with 429,
\* or goes on to await request.json().
LimitCheck(o) ==
    /\ limit_pc[o] = "new"
    /\ limit_pc' = [limit_pc EXCEPT ![o] = IF AtLimit THEN "rejected"
                                           ELSE "reading"]
    /\ UNCHANGED <<limit_peers, connection_count>>
    /\ UNCHANGED OtherVarsOfLimit

\* offer, lines 862-888: the body has arrived; the connection is made and
\* registered, and the handler awaits setRemoteDescription.
LimitRegister(o) ==
    /\ limit_pc[o] = "reading"
    /\ limit_peers' = limit_peers \cup {o}
    /\ connection_count' = connection_count + 1
    /\ limit_pc' = [limit_pc EXCEPT ![o] = "negotiating"]
    /\ UNCHANGED OtherVarsOfLimit

\* offer, lines 862-865 and 1070-1072: the body is not JSON, or lacks sdp or
\* type; the exception is answered with 500 before a connection is made.
LimitBadBody(o) ==
    /\ limit_pc[o] = "reading"
    /\ limit_pc' = [limit_pc EXCEPT ![o] = "failed"]
    /\ UNCHANGED <<limit_peers, connection_count>>
    /\ UNCHANGED OtherVarsOfLimit

\* on_connectionstatechange, lines 880-884: the connection has closed or
\* failed.
LimitClosed(o) ==
    /\ limit_pc[o] = "negotiating"
    /\ limit_peers' = limit_peers \ {o}
    /\ limit_pc' = [limit_pc EXCEPT ![o] = "closed"]
    /\ UNCHANGED connection_count
    /\ UNCHANGED OtherVarsOfLimit

LimitNext ==
    \E o \in LimitOffers :
        \/ LimitCheck(o)
        \/ LimitRegister(o)
        \/ LimitBadBody(o)
        \/ LimitClosed(o)

(***************************************************************************)
(* src/deprecated/ultra-low-latency.py: read_mjpeg_frame, called by        *)
(* camera_reader once per pass (line 68) on the stdout of the capture      *)
(* subprocess.  The subprocess writes units, each FF D8, payload bytes and *)
(* FF D9; the payload bytes of the i-th unit all have the value i, which   *)
(* tells the units apart.  A read returns some of the bytes the pipe       *)
(* holds, at most MaxChunk of them, and nothing once the subprocess has    *)
(* closed its end and the pipe is empty.                                   *)
(***************************************************************************)
MjUnit(i, n) == SOI \o [k \in 1..n |-> i] \o EOI

OtherVarsOfMjpeg ==
    <<framerVars, cameraVars, handlerVars, queueVars, trackVars, viewerVars,
      flowVars, replyVars, yuvVars, termVars, backoffVars, nalVars, h264Vars,
      paramsVars, limitVars>>

\* rpicam-vid writes its next frame.
MjWrite ==
    /\ ~mj_closed
    /\ Len(mj_written) < MaxUnits
    /\ \E n \in 1..MaxPayload :
        LET u == MjUnit(Len(mj_written) + 1, n)
        IN  /\ mj_written' = Append(mj_written, u)
            /\ mj_pipe' = mj_pipe \o u
    /\ UNCHANGED <<mj_closed, mj_buffer, mj_pc, mj_frames>>
    /\ UNCHANGED OtherVarsOfMjpeg

\* rpicam-vid ends: its end of the pipe is closed.
MjClose ==
    /\ ~mj_closed
    /\ mj_closed' = TRUE
    /\ UNCHANGED <<mj_pipe, mj_written, mj_buffer, mj_pc, mj_frames>>
    /\ UNCHANGED OtherVarsOfMjpeg

\* stream.read(1024) can return: there is data, or the end of the file.
MjReadable == mj_pipe # <<>> \/ mj_closed

\* read_mjpeg_frame, line 146: buffer = b''.
MjBufferAtCall == <<>>

\* camera_reader, line 68, and read_mjpeg_frame, line 146.
MjCall ==
    /\ mj_pc = "idle"
    /\ mj_buffer' = MjBufferAtCall
    /\ mj_pc' = "start"
    /\ UNCHANGED <<mj_pipe, mj_written, mj_closed, mj_frames>>
    /\ UNCHANGED OtherVarsOfMjpeg

\* read_mjpeg_frame, lines 149-157: one pass of "find start marker".  At the
\* end of the file the call returns None.
MjFindStart ==
    /\ mj_pc = "start"
    /\ MjReadable
    /\ IF mj_pipe = <<>>
       THEN /\ mj_pc' = "ended"
            /\ UNCHANGED <<mj_pipe, mj_buffer>>
       ELSE \E n \in 1..MaxChunk :
            LET data == Slice(mj_pipe, 0, n)
                buf == mj_buffer \o data
                start_idx == Find(buf, SOI, 0)
            IN  /\ n <= Len(mj_pipe)
                /\ mj_pipe' = Slice(mj_pipe, n, Len(mj_pipe))
                /\ IF start_idx # -1
                   THEN /\ mj_buffer' = Slice(buf, start_idx, Len(buf))
                        /\ mj_pc' = "end"
                   ELSE /\ mj_buffer' = buf
                        /\ mj_pc' = "start"
    /\ UNCHANGED <<mj_written, mj_closed, mj_frames>>
    /\ UNCHANGED OtherVarsOfMjpeg

\* read_mjpeg_frame, lines 161-166: the end marker is in the buffer.
MjReturnFrame ==
    /\ mj_pc = "end"
    /\ LET end_idx == Find(mj_buffer, EOI, 0)
       IN  /\ end_idx # -1
           /\ mj_frames' = Append(mj_frames, Slice(mj_buffer, 0, end_idx + 2))
           /\ mj_buffer' = Slice(mj_buffer, end_idx + 2, Len(mj_buffer))
    /\ mj_pc' = "idle"
    /\ UNCHANGED <<mj_pipe, mj_written, mj_closed>>
    /\ UNCHANGED OtherVarsOfMjpeg

\* read_mjpeg_frame, lines 161-162 and 168-171: no end marker in the buffer.
\* At the end of the file the call returns None.
MjReadMore ==
    /\ mj_pc = "end"
    /\ Find(mj_buffer, EOI, 0) = -1
    /\ MjReadable
    /\ IF mj_pipe = <<>>
       THEN /\ mj_pc' = "ended"
            /\ UNCHANGED <<mj_pipe, mj_buffer>>
       ELSE /\ \E n \in 1..MaxChunk :
                /\ n <= Len(mj_pipe)
                /\ mj_buffer' = mj_buffer \o Slice(mj_pipe, 0, n)
                /\ mj_pipe' = Slice(mj_pipe, n, Len(mj_pipe))
            /\ UNCHANGED mj_pc
    /\ UNCHANGED <<mj_written, mj_closed, mj_frames>>
    /\ UNCHANGED OtherVarsOfMjpeg

MjNext ==
    \/ MjWrite
    \/ MjClose
    \/ MjCall
    \/ MjFindStart
    \/ MjReturnFrame
    \/ MjReadMore

SpecFramer == Init /\ [][FramerNext]_vars

SpecCamera == Init /\ [][CameraNext]_vars

SpecHandler == Init /\ [][HandlerNext]_vars

SpecQueue == QueueInit /\ [][QueueNext]_vars

SpecTrack == Init /\ [][TrackNext]_vars

\* The senders of the attached viewers keep calling recv, and a call that
\* can go on does.
YuvFairness == WF_vars(YuvRecvStep)

SpecYuv == YuvInit /\ [][YuvNext]_vars /\ YuvFairness

\* Every thread is a running thread: it takes its next step when it has
\* one.  A read that waits for a process that is alive and writes nothing
\* has none.
ReaderFairness ==
    /\ WF_vars(SetupStep(MainThread) \/ StartThread)
    /\ WF_vars(StopStep)
    /\ \A t \in ReaderIds : WF_vars(ReaderRuns(t))

SpecReader == Init /\ [][ReaderNext]_vars /\ ReaderFairness

\* The thread that called stop_camera runs on; nothing is said of the reader.
StopFairness == WF_vars(StopStep)

SpecStop == Init /\ [][SessionNext]_vars /\ StopFairness

\* A session that is started and not stopped, whose subprocess may exit at
\* any time and whose replacement starts in the end: a process exits, or
\* fails to launch, only while the run can still spawn another one.
Recoverable ==
    \/ Unborn # {}
    \/ camera_process # None /\ proc[camera_process] = "alive"

RestartNext ==
    \/ StartCamera
    \/ StartThread
    \/ TrackRecv
    \/ SetupStep(MainThread) /\ Recoverable'
    \/ \E t \in ReaderIds : ReaderStep(t) /\ Recoverable'
    \/ \E p \in ProcIds : ProcessExits(p) /\ Recoverable'

\* The interpreter schedules every thread that can run; a subprocess that
\* is alive delivers a whole frame sooner or later.
RestartFairness ==
    /\ WF_vars(StartThread \/ SetupStep(MainThread))
    /\ \A t \in ReaderIds :
        /\ WF_vars(ReaderStep(t))
        /\ SF_vars(ReaderReadFrame(t))

SpecRestart == Init /\ [][RestartNext]_vars /\ RestartFairness

\* The first session of a Camera: the event-loop thread and the reader
\* thread, every call of the stop sequence a step of its own.
SpecTerm == Init /\ [][TermNext]_vars

\* A running session with the sleeps of its reader counted.
SpecBackoff == Init /\ [][BackoffNext]_vars

\* The reader of src/multicore-gpu.py and the encoder it reads from.
SpecNal == Init /\ [][NalNext]_vars

\* The reader of src/h264codec.py and the encoder it reads from.
SpecH264 == Init /\ [][H264Next]_vars
SpecParams == Init /\ [][ParamsNext]_vars
SpecLimit == Init /\ [][LimitNext]_vars
SpecMjpeg == Init /\ [][MjNext]_vars

(***************************************************************************)
(* C1.  At most one capture subprocess spawned by the Camera is alive at   *)
(* any time, whatever the interleaving of start_camera, stop_camera and    *)
(* the reader loop.                                                        *)
(***************************************************************************)
AtMostOneCaptureProcess == Cardinality(Alive) <= 1

Handled == {c \in PcIds : conn[c] # "unused"}
Negotiating == {c \in PcIds : conn[c] = "negotiating"}
Accepted == {c \in PcIds : conn[c] = "connected"}
Refused == {c \in PcIds : conn[c] \in {"start_failed", "rejected"}}
NoTeardown == \A c \in PcIds : conn[c] \notin GoneStates
HandlersIdle == \A c \in PcIds : hPending[c] = 0 /\ hClosing[c] = 0
Geometry(cfg) == <<cfg.width, cfg.height, cfg.fps>>

(***************************************************************************)
(* C2.  With no teardown in between, once the offers received so far have  *)
(* been handled, start_camera has been called exactly once and             *)
(* peer_connections holds as many connections as offers were accepted      *)
(* (answered with a description).                                          *)
(***************************************************************************)
SingleFlightStart ==
    (NoTeardown /\ Handled # {} /\ Negotiating = {}) =>
        /\ startCalls = 1
        /\ Cardinality(peer_connections) = Cardinality(Accepted)

(***************************************************************************)
(* C3.  When every offer was answered successfully: stop_camera is never   *)
(* called more often than start_camera and at most one start is unmatched; *)
(* and once every connection is failed, closed or disconnected and its     *)
(* handlers have run, each start_camera has its one stop_camera,           *)
(* video_track is None and the camera is not running.                      *)
(***************************************************************************)
TornDownOnceWhenLastLeaves ==
    Refused = {} =>
        /\ stopCalls <= startCalls
        /\ startCalls <= stopCalls + 1
        /\ (/\ Handled # {}
            /\ \A c \in Handled : conn[c] \in GoneStates
            /\ HandlersIdle)
           => /\ stopCalls = startCalls
              /\ ~video_track
              /\ ~camera_running

\* Two viewers were answered and left, every handler has run, and the
\* camera was started and stopped once.
TornDownOnceWitness ==
    /\ Refused = {}
    /\ Cardinality(Handled) = 2
    /\ \A c \in Handled : conn[c] = "closed"
    /\ HandlersIdle
    /\ startCalls = 1
    /\ stopCalls = 1
    /\ ~video_track

(***************************************************************************)
(* C4.  A disconnect handler calls stop_camera only when no connection is  *)
(* left in peer_connections but the one it has just discarded; as long as  *)
(* a connection is in peer_connections the track exists and the camera     *)
(* that was started for it has not been stopped.                           *)
(***************************************************************************)
StopOnlyByLastPeer ==
    [][stopCalls' # stopCalls =>
        \E c \in PcIds :
            /\ hClosing'[c] < hClosing[c]
            /\ peer_connections \subseteq {c}
            /\ peer_connections' = {}]_vars

AttachedViewerKeepsCapture ==
    peer_connections # {} =>
        /\ video_track
        /\ camera_running
        /\ startCalls = stopCalls + 1

NoPrematureStop == []AttachedViewerKeepsCapture /\ StopOnlyByLastPeer

\* One viewer's handler has discarded its connection while a second viewer
\* is connected: the set is not empty and the camera was not stopped.
NoPrematureStopWitness ==
    \E c, d \in PcIds :
        /\ conn[c] = "closed"
        /\ c \notin peer_connections
        /\ hClosing[c] = 0
        /\ hPending[c] = 0
        /\ conn[d] = "connected"
        /\ peer_connections = {d}
        /\ stopCalls = 0
        /\ camera_running

(***************************************************************************)
(* C5.  While the camera runs, the capture was started with the width,     *)
(* height and frame rate of the latest offer handled: an offer that asks   *)
(* for another geometry has the camera stopped and started again.          *)
(***************************************************************************)
RestartOnGeometryChange ==
    (video_track /\ camera_running /\ startOutcome = "ok") =>
        Geometry(sessionCfg) = Geometry(config)

(***************************************************************************)
(* C6.  While a capture session runs, the capture settings in the config   *)
(* are those of its start_camera, and the command line of the capture      *)
(* process, restarted or not, is the one built from them.                  *)
(***************************************************************************)
ConfigFrozenWhileRunning ==
    camera_running =>
        /\ config = sessionCfg
        /\ camera_process # None => capture_cmd = CommandLine(sessionCfg)

(***************************************************************************)
(* C7.  After a start_camera that raised in an offer, the offer's          *)
(* connection is not in peer_connections, video_track is None and          *)
(* camera_running is False.                                                *)
(***************************************************************************)
StartFailureAttachesNoViewer ==
    \A c \in PcIds :
        conn[c] = "start_failed" =>
            /\ c \notin peer_connections
            /\ ~video_track
            /\ ~camera_running

(***************************************************************************)
(* C8.  While the session runs, a subprocess that has exited is replaced   *)
(* by the reader loop and frames of the replacement reach the queue;       *)
(* camera_running stays True and the reader thread does not end.           *)
(***************************************************************************)
ReaderKeepsRunning ==
    \A t \in ReaderIds : pc[t] # "unborn" => (pc[t] # "done" /\ camera_running)

FramesResume(p) ==
    /\ camera_process # None
    /\ camera_process # p
    /\ proc[camera_process] = "alive"
    /\ frame_queue = <<camera_process>>

RestartResumesFrames ==
    /\ []ReaderKeepsRunning
    /\ \A p \in ProcIds :
        (LiveReaders # {} /\ camera_running /\ camera_process = p
            /\ proc[p] = "dead") ~> FramesResume(p)

\* The first subprocess has exited after the reader pushed one of its
\* frames, and a frame of its replacement is now in the queue.
RestartResumesFramesWitness ==
    /\ LiveReaders # {}
    /\ camera_running
    /\ proc[1] = "dead"
    /\ camera_process = 2
    /\ proc[2] = "alive"
    /\ frame_queue = <<2>>

(***************************************************************************)
(* C9.  Framing round trip: for a stream of well-formed units with nothing *)
(* in front of the first one, whatever the chunking, the units extracted   *)
(* so far are the first units written, byte for byte and in order, and     *)
(* once every byte has been read exactly the units written were extracted. *)
(***************************************************************************)
IsPrefix(s, t) == Len(s) <= Len(t) /\ \A i \in 1..Len(s) : s[i] = t[i]

FramingRoundTrip ==
    junk = <<>> =>
        /\ IsPrefix(emitted, written)
        /\ skipped = <<>>
        /\ pipe = <<>> => (emitted = written /\ buffer = <<>>)

\* The first unit has been extracted and the last read ended inside the
\* second unit's end marker: the buffer ends in FF and D9 is still unread.
FramingRoundTripWitness ==
    /\ junk = <<>>
    /\ Len(written) = 2
    /\ emitted = <<written[1]>>
    /\ buffer # <<>>
    /\ buffer[Len(buffer)] = FF
    /\ pipe = <<D9>>

(***************************************************************************)
(* C10.  Resync: with garbage in front of the first start marker, the      *)
(* first unit extracted is the first unit written, intact, and the bytes   *)
(* the framer has dropped are exactly the garbage.                         *)
(***************************************************************************)
ResyncGarbage ==
    /\ Len(emitted) = 0 => skipped = <<>>
    /\ (junk # <<>> /\ Len(emitted) >= 1) =>
            /\ emitted[1] = written[1]
            /\ skipped = junk

ResyncGarbageWitness ==
    /\ junk # <<>>
    /\ Len(emitted) >= 1
    /\ skipped = junk

Min(a, b) == IF a < b THEN a ELSE b
Range(s) == {s[i] : i \in 1..Len(s)}
\* The n latest of the frames 1..k, oldest first.
Latest(k, n) == [i \in 1..Min(k, n) |-> k - Min(k, n) + i]
Pushing == {t \in ReaderIds : pc[t] \in {"put", "full", "put_again"}}
\* The first session runs, its reader is between two pushes and nothing
\* has been taken from the queue.
OnlyPushesSoFar ==
    /\ camera_thread = 1
    /\ camera_running
    /\ pc[MainThread] = "idle"
    /\ Pushing = {}
    /\ delivered = <<>>

(***************************************************************************)
(* C11.  After the frames 1..k have been pushed by the reader with no      *)
(* consumer running, draining the queue yields the latest maxsize of them  *)
(* (all of them when k is smaller), oldest first.                          *)
(***************************************************************************)
FreshestWins ==
    OnlyPushesSoFar => Drain(frame_queue) = Latest(produced, maxsize)

FreshestWinsWitness ==
    /\ OnlyPushesSoFar
    /\ maxsize = 2
    /\ produced = 3
    /\ frame_queue = <<2, 3>>

(***************************************************************************)
(* C12.  Whatever recv does in between, a push ends with its frame in the  *)
(* queue: no frame is given up by the push itself.                         *)
(***************************************************************************)
PushNeverGivesUp == lost = {}

DeliveredOnce ==
    /\ Cardinality(Range(delivered)) = Len(delivered)
    /\ Range(delivered) \cap Range(frame_queue) = {}

\* Two pops, the second while the reader is in the middle of a push.
DeliveredOnceWitness ==
    /\ Len(delivered) = 2
    /\ \E t \in ReaderIds : pc[t] = "full"
    /\ frame_queue = <<>>

(***************************************************************************)
(* C15.  The queue never holds more than maxsize frames.                   *)
(***************************************************************************)
QueueBounded == Len(frame_queue) <= maxsize

\* A full queue in a second session, after pushes, pops and a stop_camera.
QueueBoundedWitness ==
    /\ Len(frame_queue) = maxsize
    /\ maxsize = 2
    /\ delivered # <<>>
    /\ camera_thread = 2

(***************************************************************************)
(* C17.  A recv that begins after stop_camera has returned, and before the *)
(* next start_camera, gets no captured frame from the queue.               *)
(***************************************************************************)
RecvAfterStopIsBlank == ~stale


(***************************************************************************)
(* C18.  Once stop_camera has returned and the track is gone, a further    *)
(* stop_camera call terminates nothing: the Camera refers to no            *)
(* subprocess.                                                             *)
(***************************************************************************)
FurtherStopTerminatesNothing ==
    (pc[MainThread] = "idle" /\ ~video_track /\ ~camera_running) =>
        ~StopTerminates


(***************************************************************************)
(* C16.  While the track exists a recv can always complete, and what it    *)
(* returns is an image: a recv that found the queue empty, or whose        *)
(* processing raised, returns a blank image of config["height"] rows and   *)
(* config["width"] columns; any other recv returns the frame it took.      *)
(***************************************************************************)
RecvCanComplete ==
    video_track =>
        IF frame_queue = <<>> THEN ENABLED RecvTimeout
        ELSE ENABLED RecvFrame /\ ENABLED RecvFails

RecvReturnsImage ==
    [][/\ (RecvTimeout \/ RecvFails) =>
            /\ image'.kind = "blank"
            /\ image'.rows = config.height
            /\ image'.cols = config.width
       /\ image' # image => image'.kind \in {"frame", "blank"}]_vars

QuarterTurns ==
    /\ rotation = (90 * rotations) % 360
    /\ rotation \in {0, 90, 180, 270}

OnlyRotateTurns == [][rotations' = rotations => rotation' = rotation]_vars

RotationByQuarterTurns == []QuarterTurns /\ OnlyRotateTurns

\* Four calls have brought the rotation back to where it started, and recv
\* has returned frames meanwhile.
RotationByQuarterTurnsWitness ==
    /\ rotations = 4
    /\ rotation = 0
    /\ image.kind = "frame"
    /\ image.asked = 0

(***************************************************************************)
(* C20.  The rotation the latest rotate() call set is the rotation of the  *)
(* track for as long as there is one, and every image recv returns, a      *)
(* captured frame or the blank one, is turned by the rotation the track    *)
(* had at that recv.                                                       *)
(***************************************************************************)
RotationAppliedToEveryImage ==
    /\ video_track => rotation = commanded
    /\ image.kind # "none" => image.turned = image.asked

(***************************************************************************)
(* C26  Every offer the handler has finished with got a response, and the  *)
(* response is one of two: the answer with sdp and type, for the offers    *)
(* that were negotiated, or the error object with status 500, for every    *)
(* failure: a camera that did not start, a negotiation that failed, a      *)
(* request that could not be parsed.  No exception leaves the handler.     *)
(***************************************************************************)
Answered == {c \in PcIds : conn[c] \in {"connected"} \cup GoneStates}

EveryOfferIsAnswered ==
    /\ \A c \in PcIds :
        response[c] = IF c \in Refused THEN ErrorResponse
                      ELSE IF c \in Answered THEN AnswerResponse
                      ELSE NoResponse
    /\ bad_reply \in {NoResponse, ErrorResponse}

EveryOfferIsAnsweredWitness ==
    /\ \E c \in PcIds : conn[c] = "start_failed" /\ response[c] = ErrorResponse
    /\ bad_reply = ErrorResponse

(***************************************************************************)
(* C21  Two viewers that both pull frames from the session's track see the *)
(* same frames: a frame one viewer's pull has returned is a frame the      *)
(* other viewer has got as well, or one that is still in the queue for it  *)
(* to get.                                                                 *)
(***************************************************************************)
ViewersSeeSameFrames ==
    \A v \in Viewers, w \in Viewers :
        pulled[v] # {} /\ pulled[w] # {} =>
            (pulled[v] \ pulled[w]) \subseteq Range(frame_queue)

(***************************************************************************)
(* C23  The framer's buffer is bounded for every input: bytes among which  *)
(* there is no start marker are discarded, so a buffer without a start     *)
(* marker holds less than one marker (at most the FF a marker may begin    *)
(* with).                                                                  *)
(***************************************************************************)
DataWithoutStartDiscarded ==
    JpegStart(buffer) = -1 => Len(buffer) < Len(SOI)

(***************************************************************************)
(* C27  From the return of stop_camera to the next start_camera no capture *)
(* subprocess of the Camera is alive and camera_process is None, whatever  *)
(* the reader thread was doing when stop_camera was called.                *)
(***************************************************************************)
BetweenStopAndStart ==
    /\ pc[MainThread] = "idle"
    /\ ~camera_running
    /\ ~video_track

StoppedMeansNoCapture ==
    BetweenStopAndStart => Alive = {} /\ camera_process = None

(***************************************************************************)
(* C28  At most one reader thread of the Camera is executing camera_reader *)
(* at any time, whatever the start_camera and stop_camera calls and also   *)
(* when the join in stop_camera gives up before the reader has ended.      *)
(***************************************************************************)
AtMostOneReader == Cardinality(LiveReaders) <= 1

(***************************************************************************)
(* C24  Fixed-size framing: every unit _read_yuv_frame has returned has    *)
(* exactly frame_size = width*height*3/2 bytes; the units, one after the   *)
(* other, followed by what is left in the buffer, are the bytes read from  *)
(* the subprocess in their order, none twice and none left out, whatever   *)
(* the chunks they were read in; and a call that meets the end of the      *)
(* stream with less than a unit in the buffer returns no frame.            *)
(***************************************************************************)
RECURSIVE Flatten(_)
Flatten(ss) == IF ss = <<>> THEN <<>> ELSE Head(ss) \o Flatten(Tail(ss))

StreamEndedShort ==
    /\ rpicam_proc = "exited"
    /\ yuv_taken = yuv_out
    /\ Len(yuv_buffer) < FrameSize(yuv_dims)

FramesAreSlices ==
    /\ \A i \in 1..Len(yuv_frames) :
        Len(yuv_frames[i]) = (yuv_dims[1] * yuv_dims[2] * 3) \div 2
    /\ Flatten(yuv_frames) \o yuv_buffer = Stream(0, yuv_taken)

ShortReadRaises ==
    [][yuv_pc = "reading" /\ StreamEndedShort /\ yuv_pc' = "idle" =>
            yuv_result' = "None" /\ yuv_frames' = yuv_frames]_vars

FixedSizeFraming == []FramesAreSlices /\ ShortReadRaises

FixedSizeFramingWitness ==
    /\ Len(yuv_frames) >= 2
    /\ StreamEndedShort
    /\ yuv_buffer # <<>>
    /\ yuv_pc = "idle"
    /\ yuv_result = "None"

(***************************************************************************)
(* C25  A short read at the end of the stream triggers the restart: after  *)
(* a recv has failed because the subprocess's output ended, the subprocess *)
(* is eventually started again and a later recv returns a frame.           *)
(***************************************************************************)
ShortReadHit ==
    /\ StreamEndedShort
    /\ yuv_buffer # <<>>
    /\ yuv_pc = "idle"
    /\ yuv_result = "None"

Restarted ==
    /\ yuv_spawned > 1
    /\ rpicam_proc = "running"

ShortReadRestarts == ShortReadHit ~> (Restarted /\ yuv_result = "frame")

(***************************************************************************)
(* C22  A capture subprocess that stays alive and yields no frame (it      *)
(* writes nothing, or bytes in which no unit becomes complete) is          *)
(* eventually restarted by the reader loop: while the session runs, the    *)
(* stalled subprocess is eventually stopped for a new one.                 *)
(***************************************************************************)
StalledCapture(p) ==
    /\ camera_running
    /\ camera_process = p
    /\ proc[p] = "alive"
    /\ flow[p] \in Stalls

StallRestarts ==
    \A p \in ProcIds :
        StalledCapture(p) ~> (proc[p] = "dead" \/ ~camera_running)

(***************************************************************************)
(* C29  Once stop_camera has cleared camera_running and has terminated the *)
(* subprocess, every reader thread eventually ends, also one that was      *)
(* blocked in its read, unless start_camera is called again.               *)
(***************************************************************************)
StopHasTerminated ==
    /\ ~camera_running
    /\ pc[MainThread] \in {"join", "drain", "idle"}
    /\ camera_thread # None

\* The run has used up the subprocesses the model has (MaxProcs).
OutOfProcesses == Unborn = {}

ReaderEndsAfterStop ==
    StopHasTerminated ~> (LiveReaders = {} \/ camera_running \/ OutOfProcesses)

(***************************************************************************)
(* C30  Every call of stop_camera returns, whatever the subprocess and the *)
(* reader thread do: also when the reader thread never ends, because the   *)
(* join gives up.                                                          *)
(***************************************************************************)
InStopCamera == pc[MainThread] \in {"stop", "stop_clear", "join", "drain"}

KillOnlyAfterTimeout ==
    \A k \in killed : k.asked = k.target /\ k.timed_out = k.target

(***************************************************************************)
(* C32  An offer that was answered with an error after its connection had  *)
(* been added to peer_connections has that connection out of               *)
(* peer_connections again when the response is returned, and the camera is *)
(* not running unless a connection of another, not refused, offer is       *)
(* tracked.                                                                *)
(***************************************************************************)
ReleasedOnError ==
    \A c \in PcIds :
        (c \in Refused /\ response[c] = ErrorResponse) =>
            /\ c \notin peer_connections
            /\ camera_running => \E d \in peer_connections : d \notin Refused

(***************************************************************************)
(* C33  After a start attempt of the reader loop that failed, the reader   *)
(* waits the restart backoff before its next start attempt: two start      *)
(* attempts of a reader, the first of which failed, are never less than    *)
(* the backoff of 50 ms apart.                                             *)
(***************************************************************************)
RestartFailuresThrottled ==
    \A t \in ReaderIds : gap[t] # NoGap => gap[t] >= RestartBackoffMs

(***************************************************************************)
(* C34  The producer removes a buffered unit only from a full queue: the   *)
(* get_nowait of a push takes a unit out only when the queue holds maxsize *)
(* units at that moment, and it takes out one unit.                        *)
(***************************************************************************)
Evicts(t) == pc[t] = "full" /\ pc'[t] = "put_again"

EvictsOnlyWhenFull ==
    [][\A t \in ReaderIds :
          Evicts(t) => /\ Len(frame_queue) = maxsize
                       /\ Len(frame_queue') = Len(frame_queue) - 1]_vars

(***************************************************************************)
(* C35  The units the calls of read_h264_nal_unit return are the units the *)
(* encoder wrote, each once, in order and whole, however the reads split   *)
(* the stream; when the stream has ended every unit was returned, the last *)
(* one included.                                                           *)
(***************************************************************************)
NalUnitsReturnedOnce ==
    /\ IsPrefix(nal_units, nal_written)
    /\ nal_pc = "ended" => nal_units = nal_written

(***************************************************************************)
(* C36  The units the H.264 reader pushes are the units the encoder wrote, *)
(* in order and byte for byte, and when the encoder's output has ended     *)
(* every unit was pushed, the last one, which no start code follows,       *)
(* included.                                                               *)
(***************************************************************************)
StreamingFramerPushesAllUnits ==
    /\ IsPrefix(h264_pushed, h264_written)
    /\ h264_ended => h264_pushed = h264_written

(***************************************************************************)
(* C37.  After offer() has processed the parameters of a request, the      *)
(* capture config is 320x240 at 60 fps with quality 70 when latencyMode is *)
(* "ultra" or absent, 640x480 at 30 fps with quality 75 when it is "low",  *)
(* and otherwise the requested width, height, fps and quality, each        *)
(* converted to an integer (its fraction dropped), with the previous value *)
(* of the config kept for each of them the request omits; sharpness,       *)
(* contrast, saturation and brightness take the requested value or keep    *)
(* the previous one in every mode.                                         *)
(***************************************************************************)
ModeAsked == Get(request_json, "latencyMode", "ultra")

Presets(cfg, w, h, f, q) ==
    cfg.width = w /\ cfg.height = h /\ cfg.fps = f /\ cfg.quality = q

TuningAsRequested ==
    \A k \in FloatKeys :
        config[k] = IF k \in DOMAIN request_json THEN request_json[k]
                    ELSE before[k]

ConfigAfterOffer ==
    parsed =>
        /\ ModeAsked = "ultra" => Presets(config, 320, 240, 60, 70)
        /\ ModeAsked = "low" => Presets(config, 640, 480, 30, 75)
        /\ ModeAsked \notin {"ultra", "low"} =>
            \A k \in IntKeys :
                IF k \in DOMAIN request_json
                THEN /\ Number(config[k]) <= request_json[k]
                     /\ request_json[k] < Number(config[k] + 1)
                ELSE config[k] = before[k]
        /\ TuningAsRequested

\* An offer in neither preset mode that asks for some of the four settings
\* and omits others, on a config an earlier offer has changed.
ConfigAfterOfferWitness ==
    /\ parsed
    /\ ModeAsked \notin {"ultra", "low"}
    /\ before # DefaultConfig
    /\ \E k \in IntKeys : k \in DOMAIN request_json /\ config[k] # before[k]
    /\ \E k \in IntKeys : k \notin DOMAIN request_json
                          /\ config[k] # DefaultConfig[k]

\* C37 as stated: outside the two preset modes the config holds exactly the
\* requested width, height, fps and quality.
ConfigExactlyAsRequested ==
    parsed =>
        /\ ModeAsked = "ultra" => Presets(config, 320, 240, 60, 70)
        /\ ModeAsked = "low" => Presets(config, 640, 480, 30, 75)
        /\ ModeAsked \notin {"ultra", "low"} =>
            \A k \in IntKeys :
                IF k \in DOMAIN request_json
                THEN Number(config[k]) = request_json[k]
                ELSE config[k] = before[k]
        /\ TuningAsRequested

(***************************************************************************)
(* C38.  In the connection-limited server the number of peer connections   *)
(* held never exceeds max_connections, however the offers handled at the   *)
(* same time interleave (each suspends at `await request.json()` between   *)
(* the limit check and the registration of its connection); an offer that  *)
(* arrives when the limit is reached is answered with 429 and registers no *)
(* connection.                                                             *)
(***************************************************************************)
ConnectionsWithinLimit ==
    /\ Cardinality(limit_peers) <= max_connections
    /\ \A o \in LimitOffers : limit_pc[o] = "rejected" => o \notin limit_peers

(***************************************************************************)
(* C39.  read_mjpeg_frame keeps the data that remains after a returned     *)
(* frame for the next frame: the calls the reader loop makes on one stream *)
(* return every marker-delimited unit of the stream once and in order,     *)
(* whatever the reads held beyond the end marker of the unit returned;     *)
(* when the stream has ended every unit was returned.                      *)
(***************************************************************************)
MjpegFramesReturnedOnce ==
    /\ IsPrefix(mj_frames, mj_written)
    /\ mj_pc = "ended" => mj_frames = mj_written

====
